---- MODULE Spec2Model ----
(***************************************************************************)
(* Model of the streaming translation core of gemini-cli-go.               *)
(*                                                                         *)
(*   Spec      one streaming request: the producer goroutine of            *)
(*             Client.StreamContent (synthetic reasoning, upstream call,   *)
(*             SSE parsing, part classification), the chunk channel, and   *)
(*             the consumer loop of OpenAIHandler.handleStreamingResponse  *)
(*             writing through stream.StreamWriter.                        *)
(*   SpecAuth  one goroutine using auth.AuthManager (credential cache and  *)
(*             broker) and Client.performStreamRequestWithRetry.           *)
(*   SpecConc  the same AuthManager operations run by two goroutines.      *)
(*                                                                         *)
(* Time is counted in seconds.  Strings of the wire formats are kept as    *)
(* short strings; a data line is represented by the payload it carries.    *)
(***************************************************************************)
EXTENDS Integers, Sequences, FiniteSets, TLC

\* ------------------------------------------------------------------------
\* Bounds of the model
\* ------------------------------------------------------------------------
MaxEvents == 2       \* upstream SSE events (bursts of lines) per response
NumFakeChunks == 2   \* chunks the synthetic reasoning generator produces

\* ------------------------------------------------------------------------
\* Program constants
\* ------------------------------------------------------------------------
ChanCap == 100
ThinkingOpenTag == "<thinking>\n"
ThinkingCloseTag == "\n</thinking>\n\n"

\* ------------------------------------------------------------------------
\* Stream pipeline: state
\* ------------------------------------------------------------------------
VARIABLES
  options,             \* StreamOptions of the request (the two thinking flags)
  received,            \* lines scanner.Scan has returned so far
  handed,              \* observer: the data given to processSSEData, in order
  lines,               \* lines of the response body not yet scanned
  nEvents,             \* upstream SSE events delivered so far
  buffer,              \* parseSSEStream: data fragments accumulated
  hasStartedThinking,  \* parseSSEStream local
  hasClosedThinking,   \* parseSSEStream local
  ppc,                 \* position of the producer goroutine
  fakeIdx,             \* generateFakeThinking: chunks sent so far
  pending,             \* chunks of the current payload still to be sent
  chunkChan,           \* buffered channel between producer and consumer
  chanClosed,          \* close(chunkChan) has run
  emitted,             \* every chunk sent on chunkChan, in order
  cpc,                 \* position of the consumer (the handler)
  hasStarted,          \* StreamWriter.hasStarted
  out,                 \* frames written to the client
  cancelled            \* ctx.Done() is closed

streamVars == <<options, received, handed, lines, nEvents, buffer, hasStartedThinking,
                hasClosedThinking, ppc, fakeIdx, pending, chunkChan,
                chanClosed, emitted, cpc, hasStarted, out, cancelled>>

\* ------------------------------------------------------------------------
\* Stream pipeline: data
\* ------------------------------------------------------------------------
Chunk(t, d) == [Type |-> t, Data |-> d]

NoUsage == [none |-> TRUE]
UsageValues == {[PromptTokenCount |-> 3, CandidatesTokenCount |-> 2]}

Part(th, tx) == [Thought |-> th, Text |-> tx]
PartLists ==
  { <<>>,
    <<Part(TRUE, "t")>>, <<Part(FALSE, "a")>>, <<Part(FALSE, "b")>>,
    <<Part(FALSE, "")>>,
    <<Part(TRUE, "t"), Part(FALSE, "a")>>,
    <<Part(FALSE, "a"), Part(FALSE, "b")>> }

\* Payloads a data line can carry.  kind "json" is a well-formed GeminiResponse
Frames == [kind : {"json"}, parts : PartLists,
           usage : {NoUsage} \cup UsageValues]
NilResponse == [kind |-> "nil"]         \* well-formed JSON without "response"
Malformed == [kind |-> "malformed"]     \* not JSON
DoneSentinel == [kind |-> "done"]       \* the literal [DONE]
Payloads == Frames \cup {NilResponse, Malformed, DoneSentinel}

\* Lines of the upstream body
BlankLine == [line |-> "blank"]
NoiseLine == [line |-> "other"]         \* a line without the "data: " prefix
DataLine(p) == [line |-> "data", payload |-> p]

\* What the upstream sends in one go: a data line and its blank line, or one
\* of the irregular shapes (no blank line after the data, a stray blank line,
\* a line that is not a data line)
UpstreamEvents ==
  { <<DataLine(p), BlankLine>> : p \in Payloads } \cup
  { <<DataLine([kind |-> "json", parts |-> <<Part(FALSE, "a")>>, usage |-> NoUsage])>>,
    <<DataLine(DoneSentinel)>>, <<BlankLine>>, <<NoiseLine>> }

\* ------------------------------------------------------------------------
\* Event classifier (pure part)
\* ------------------------------------------------------------------------
\* st = [started, closed, chunks]: the two flags and the chunks sent so far
ProcessPart(part, asContent, st) ==
  IF part.Thought /\ part.Text # "" THEN
    IF asContent THEN
      [started |-> TRUE,
       closed |-> st.closed,
       chunks |-> st.chunks
                   \o (IF ~st.started
                       THEN <<Chunk("thinking_content", ThinkingOpenTag)>>
                       ELSE <<>>)
                   \o <<Chunk("thinking_content", part.Text)>>]
    ELSE
      [st EXCEPT !.chunks = @ \o <<Chunk("real_thinking", part.Text)>>]
  ELSE IF part.Text # "" /\ ~part.Thought THEN
    [started |-> st.started,
     closed |-> IF st.started /\ ~st.closed THEN TRUE ELSE st.closed,
     chunks |-> st.chunks
                 \o (IF st.started /\ ~st.closed
                     THEN <<Chunk("thinking_content", ThinkingCloseTag)>>
                     ELSE <<>>)
                 \o <<Chunk("text", part.Text)>>]
  ELSE st

RECURSIVE ProcessParts(_, _, _)
ProcessParts(parts, asContent, st) ==
  IF parts = <<>> THEN st
  ELSE ProcessParts(Tail(parts), asContent, ProcessPart(Head(parts), asContent, st))

\* (variant: a decoder that stops after the first document of the buffer)
DecodeFirst(buf) == buf[1]

\* json.Unmarshal of the accumulated buffer: one fragment is one JSON
\* document; two documents back to back are not valid JSON
Decode(buf) == IF Len(buf) = 1 THEN buf[1] ELSE Malformed

\* processSSEData: result [err, started, closed, chunks]
ProcessSSEData(buf, asContent, started, closed) ==
  LET data == Decode(buf)
      st0 == [started |-> started, closed |-> closed, chunks |-> <<>>]
  IN  IF buf = <<DoneSentinel>> THEN [err |-> FALSE] @@ st0
      ELSE IF data.kind \in {"malformed", "done"} THEN [err |-> TRUE] @@ st0
      ELSE IF data.kind = "nil" THEN [err |-> FALSE] @@ st0
      ELSE LET st1 == ProcessParts(data.parts, asContent, st0)
           IN  [err |-> FALSE] @@
               [st1 EXCEPT !.chunks =
                  @ \o (IF data.usage # NoUsage
                        THEN <<Chunk("usage",
                                 [InputTokens |-> data.usage.PromptTokenCount,
                                  OutputTokens |-> data.usage.CandidatesTokenCount])>>
                        ELSE <<>>)]

\* ------------------------------------------------------------------------
\* Credential cache and broker: state
\* ------------------------------------------------------------------------
VARIABLES
  config,        \* Environment.GCPServiceAccount, the embedded bundle
  accessToken,   \* AuthManager.accessToken
  cache,         \* AuthManager.cache["oauth_token"], or NoToken
  cacheMu,       \* AuthManager.cacheMu: [readers, writer]
  now,           \* wall clock, seconds
  pc,            \* position of each goroutine
  loc,           \* locals of each goroutine
  refreshCount,  \* refresh exchanges posted to the identity provider
  hist,          \* observer: the last two completed AuthManager calls,
                 \* oldest first (hist.on: the observer is switched on)
  opsLeft        \* operations each goroutine may still start

authVars == <<config, accessToken, cache, cacheMu, now, pc, loc, refreshCount,
              hist, opsLeft>>

\* ------------------------------------------------------------------------
\* Message adapter and buffered completion: state
\* ------------------------------------------------------------------------
VARIABLES
  messages,       \* the ChatMessage list of the request
  apc,            \* position of StreamContent in the message conversion
  aidx,           \* messages the current loop has handled
  systemPrompt,   \* extractSystemPrompt: systemPrompt
  otherMessages,  \* extractSystemPrompt: otherMessages
  contents,       \* the upstream contents built so far
  result,         \* GetCompletion: [Content, Usage] as collected so far,
                  \* Usage = NoUsage for the nil pointer
  response        \* what handleNonStreamingResponse answers, or NoResponse

adaptVars == <<messages, apc, aidx, systemPrompt, otherMessages, contents>>
completionVars == <<result, response>>

\* ------------------------------------------------------------------------
\* Image resolver, request handler and text splitter: state
\* ------------------------------------------------------------------------
VARIABLES
  imageURL,       \* the url of an image_url part, as a sequence of tokens
  ipc,            \* position of convertImageURLToGeminiPart
  validation,     \* the ImageValidation of ValidateImageURL
  imagePart,      \* what convertImageURLToGeminiPart returns
  request,        \* the ChatCompletionRequest bound from the body
  hpc,            \* position of ChatCompletions
  answer,         \* the error response written by ChatCompletions, or NoAnswer
  effects,        \* what the handler has set off, in order
  splitText,      \* splitIntoChunks: text
  chunkSize,      \* splitIntoChunks: chunkSize
  splitChunks,    \* splitIntoChunks: chunks
  splitIdx,       \* splitIntoChunks: i
  spc,            \* position of splitIntoChunks
  clients,        \* BasicRateLimitMiddleware: clients, per client IP
  rateMu,         \* BasicRateLimitMiddleware: mu, the request that holds it
  clock,          \* wall clock of the rate limiter
  reqs,           \* the requests: [ip, now, rpc]
  admitted        \* observer: the requests passed on by c.Next(), with the
                  \* time of the decision

imageVars == <<imageURL, ipc, validation, imagePart>>
handlerVars == <<request, hpc, answer, effects>>
chunkerVars == <<splitText, chunkSize, splitChunks, splitIdx, spc>>
rateVars == <<clients, rateMu, clock, reqs, admitted>>
auxVars == <<imageVars, handlerVars, chunkerVars, rateVars>>

vars == <<streamVars, authVars, adaptVars, completionVars, auxVars>>

\* ------------------------------------------------------------------------
\* Stream pipeline: the consumer side (stream.StreamWriter, Transformer)
\* ------------------------------------------------------------------------
Delta(role, content, reasoning) ==
  [frame |-> "delta", role |-> role, content |-> content,
   reasoning |-> reasoning, finish_reason |-> "", usage |-> NoUsage]

CreateRoleChunk == Delta("assistant", "", "")

CreateFinalChunk == [frame |-> "done"]

Transform(chunk) ==
  CASE chunk.Type = "text" -> Delta("", chunk.Data, "")
    [] chunk.Type = "reasoning" -> Delta("", "", chunk.Data.Reasoning)
    [] chunk.Type = "thinking_content" -> Delta("", chunk.Data, "")
    [] chunk.Type = "real_thinking" -> Delta("", "", chunk.Data)
    [] chunk.Type = "usage" ->
         [frame |-> "delta", role |-> "", content |-> "", reasoning |-> "",
          finish_reason |-> "stop",
          usage |-> [PromptTokens |-> chunk.Data.InputTokens,
                     CompletionTokens |-> chunk.Data.OutputTokens,
                     TotalTokens |-> chunk.Data.InputTokens + chunk.Data.OutputTokens]]

\* StreamWriter.WriteChunk with a writer that accepts the bytes: the frames
\* it writes and the new value of hasStarted
WriteChunk(chunk, started) ==
  [frames |-> (IF ~started /\ chunk.Type = "text" THEN <<CreateRoleChunk>> ELSE <<>>)
                \o <<Transform(chunk)>>,
   hasStarted |-> started \/ chunk.Type = "text"]

ErrorChunk == Chunk("text", "Error")
FakeErrorChunk == Chunk("text", "Error generating thinking")

\* ------------------------------------------------------------------------
\* Stream pipeline: initial state
\* ------------------------------------------------------------------------
\* The request names a model with the Thinking capability, so that
\* EnableFakeThinking alone decides whether the generator runs.
StreamInit ==
  /\ options \in [EnableFakeThinking : BOOLEAN, StreamThinkingAsContent : BOOLEAN]
  /\ received = <<>>
  /\ handed = <<>>
  /\ lines = <<>>
  /\ nEvents = 0
  /\ buffer = <<>>
  /\ hasStartedThinking = FALSE
  /\ hasClosedThinking = FALSE
  /\ ppc = "none"
  /\ fakeIdx = 0
  /\ pending = <<>>
  /\ chunkChan = <<>>
  /\ chanClosed = FALSE
  /\ emitted = <<>>
  /\ cpc = "start"
  /\ hasStarted = FALSE
  /\ out = <<>>
  /\ cancelled = FALSE

\* send on chunkChan (blocks while the channel is full)
CanSend == Len(chunkChan) < ChanCap

\* (variant: a send that gives the chunk up when the channel is full)
SendOrDrop(chunk) ==
  IF CanSend
  THEN /\ chunkChan' = Append(chunkChan, chunk)
       /\ emitted' = Append(emitted, chunk)
  ELSE UNCHANGED <<chunkChan, emitted>>

Send(chunk) ==
  /\ CanSend
  /\ chunkChan' = Append(chunkChan, chunk)
  /\ emitted' = Append(emitted, chunk)

\* ------------------------------------------------------------------------
\* Stream pipeline: handler and consumer
\* ------------------------------------------------------------------------
\* handleStreamingResponse up to the call of StreamContent.  StreamContent
\* fails before it starts the goroutine (credential, project id, message
\* conversion) or returns the channel.
StreamContentFails ==
  /\ cpc = "start"
  /\ LET w == WriteChunk(ErrorChunk, hasStarted)
     IN  /\ out' = out \o w.frames \o <<CreateFinalChunk>>
         /\ hasStarted' = w.hasStarted
  /\ cpc' = "returned"
  /\ cancelled' = TRUE
  /\ UNCHANGED <<options, received, handed, lines, nEvents, buffer, hasStartedThinking,
                 hasClosedThinking, ppc, fakeIdx, pending, chunkChan,
                 chanClosed, emitted>>
  /\ UNCHANGED <<authVars, adaptVars, completionVars, auxVars>>

StreamContentStarts ==
  /\ cpc = "start"
  /\ cpc' = "recv"
  /\ ppc' = IF options.EnableFakeThinking THEN "fake" ELSE "request"
  /\ UNCHANGED <<options, received, handed, lines, nEvents, buffer, hasStartedThinking,
                 hasClosedThinking, fakeIdx, pending, chunkChan, chanClosed,
                 emitted, hasStarted, out, cancelled>>
  /\ UNCHANGED <<authVars, adaptVars, completionVars, auxVars>>

\* One iteration of "for chunk := range chunkChan": receive, look at
\* ctx.Done(), write.  A failed write ends the handler; the handler's
\* deferred cancel() runs whenever it returns.
ConsumerReceive ==
  /\ cpc = "recv"
  /\ chunkChan # <<>>
  /\ chunkChan' = Tail(chunkChan)
  /\ IF cancelled
     THEN /\ cpc' = "returned"
          /\ UNCHANGED <<out, hasStarted, cancelled>>
     ELSE \E writeOk \in BOOLEAN :
            IF writeOk
            THEN LET w == WriteChunk(Head(chunkChan), hasStarted)
                 IN  /\ out' = out \o w.frames
                     /\ hasStarted' = w.hasStarted
                     /\ UNCHANGED <<cpc, cancelled>>
            ELSE /\ cpc' = "returned"
                 /\ cancelled' = TRUE
                 /\ UNCHANGED <<out, hasStarted>>
  /\ UNCHANGED <<options, received, handed, lines, nEvents, buffer, hasStartedThinking,
                 hasClosedThinking, ppc, fakeIdx, pending, chanClosed, emitted>>
  /\ UNCHANGED <<authVars, adaptVars, completionVars, auxVars>>

\* The range loop ends on the closed, drained channel: WriteFinalChunk
ConsumerFinish ==
  /\ cpc = "recv"
  /\ chunkChan = <<>>
  /\ chanClosed
  /\ out' = Append(out, CreateFinalChunk)
  /\ cpc' = "returned"
  /\ cancelled' = TRUE
  /\ UNCHANGED <<options, received, handed, lines, nEvents, buffer, hasStartedThinking,
                 hasClosedThinking, ppc, fakeIdx, pending, chunkChan,
                 chanClosed, emitted, hasStarted>>
  /\ UNCHANGED <<authVars, adaptVars, completionVars, auxVars>>

\* The request context ends: timeout, or the client went away
Cancel ==
  /\ cpc \in {"recv", "collect"}
  /\ ~cancelled
  /\ cancelled' = TRUE
  /\ UNCHANGED <<options, received, handed, lines, nEvents, buffer, hasStartedThinking,
                 hasClosedThinking, ppc, fakeIdx, pending, chunkChan,
                 chanClosed, emitted, cpc, hasStarted, out>>
  /\ UNCHANGED <<authVars, adaptVars, completionVars, auxVars>>

\* ------------------------------------------------------------------------
\* Stream pipeline: the producer goroutine of StreamContent
\* ------------------------------------------------------------------------
\* The i-th chunk splitIntoChunks returns for the substituted templates
ReasoningChunk(i) == "reasoning " \o ToString(i)

\* generateFakeThinking, before its loops: the open tag in content mode
FakeThinkingStart ==
  /\ ppc = "fake"
  /\ IF options.StreamThinkingAsContent
     THEN Send(Chunk("thinking_content", ThinkingOpenTag))
     ELSE UNCHANGED <<chunkChan, emitted>>
  /\ ppc' = "fake_loop"
  /\ UNCHANGED <<options, received, handed, lines, nEvents, buffer, hasStartedThinking,
                 hasClosedThinking, fakeIdx, pending, chanClosed, cpc,
                 hasStarted, out, cancelled>>
  /\ UNCHANGED <<authVars, adaptVars, completionVars, auxVars>>

\* generateFakeThinking, one iteration of a chunk loop: stop with ctx.Err()
\* when the context is done, else send the chunk
FakeThinkingChunk ==
  /\ ppc = "fake_loop"
  /\ IF cancelled
     THEN /\ ppc' = "fake_err"
          /\ UNCHANGED <<chunkChan, emitted, fakeIdx>>
     ELSE /\ Send(IF options.StreamThinkingAsContent
                  THEN Chunk("thinking_content", ReasoningChunk(fakeIdx + 1))
                  ELSE Chunk("reasoning", [Reasoning |-> ReasoningChunk(fakeIdx + 1)]))
          /\ fakeIdx' = fakeIdx + 1
          /\ ppc' = IF fakeIdx + 1 = NumFakeChunks THEN "request" ELSE "fake_loop"
  /\ UNCHANGED <<options, received, handed, lines, nEvents, buffer, hasStartedThinking,
                 hasClosedThinking, pending, chanClosed, cpc, hasStarted, out,
                 cancelled>>
  /\ UNCHANGED <<authVars, adaptVars, completionVars, auxVars>>

\* StreamContent's goroutine: the generator failed, its error goes out as
\* text and the goroutine goes on to the upstream request
FakeThinkingError ==
  /\ ppc = "fake_err"
  /\ Send(FakeErrorChunk)
  /\ ppc' = "request"
  /\ UNCHANGED <<options, received, handed, lines, nEvents, buffer, hasStartedThinking,
                 hasClosedThinking, fakeIdx, pending, chanClosed, cpc,
                 hasStarted, out, cancelled>>
  /\ UNCHANGED <<authVars, adaptVars, completionVars, auxVars>>

\* performStreamRequest up to the response status: the call succeeds with a
\* 200 and a body to parse, or ends with an error (transport error, non-200,
\* repeated 401, failed re-authentication).  A request made with a context
\* that is already done fails.
PerformStreamRequest ==
  /\ ppc = "request"
  /\ IF cancelled
     THEN ppc' = "fail"
     ELSE \E ok \in BOOLEAN : ppc' = IF ok THEN "scan" ELSE "fail"
  /\ UNCHANGED <<options, received, handed, lines, nEvents, buffer, hasStartedThinking,
                 hasClosedThinking, fakeIdx, pending, chunkChan, chanClosed,
                 emitted, cpc, hasStarted, out, cancelled>>
  /\ UNCHANGED <<authVars, adaptVars, completionVars, auxVars>>

\* (variant: every line that is not blank goes into the buffer)
BufferWriteAnyLine(buf, line) ==
  Append(buf, IF line.line = "data" THEN line.payload ELSE Malformed)

\* parseSSEStream: a line with the prefix "data: " goes into the buffer
\* without the prefix, any other line is passed over
BufferWriteString(buf, line) ==
  IF line.line = "data" THEN Append(buf, line.payload) ELSE buf

\* parseSSEStream: what the loop body does with one scanned line
HandleLine(line) ==
  /\ received' = Append(received, line)
  /\ IF line = BlankLine
     THEN IF buffer # <<>>
          THEN LET r == ProcessSSEData(buffer, options.StreamThinkingAsContent,
                                       hasStartedThinking, hasClosedThinking)
               IN  IF r.err
                   THEN /\ ppc' = "fail"
                        /\ handed' = Append(handed, buffer)
                        /\ UNCHANGED <<buffer, pending, hasStartedThinking,
                                       hasClosedThinking>>
                   ELSE /\ pending' = r.chunks
                        /\ handed' = Append(handed, buffer)
                        /\ hasStartedThinking' = r.started
                        /\ hasClosedThinking' = r.closed
                        /\ buffer' = <<>>
                        /\ UNCHANGED ppc
          ELSE UNCHANGED <<buffer, handed, pending, hasStartedThinking,
                           hasClosedThinking, ppc>>
     ELSE /\ buffer' = BufferWriteString(buffer, line)
          /\ UNCHANGED <<handed, pending, hasStartedThinking,
                         hasClosedThinking, ppc>>

\* parseSSEStream: scanner.Scan() returns the next line of the body
ScanLine ==
  /\ ppc = "scan"
  /\ pending = <<>>
  /\ ~cancelled
  /\ \/ /\ lines # <<>>
        /\ lines' = Tail(lines)
        /\ UNCHANGED nEvents
        /\ HandleLine(Head(lines))
     \/ /\ lines = <<>>
        /\ nEvents < MaxEvents
        /\ \E ev \in UpstreamEvents :
             /\ lines' = Tail(ev)
             /\ HandleLine(Head(ev))
        /\ nEvents' = nEvents + 1
  /\ UNCHANGED <<options, fakeIdx, chunkChan, chanClosed, emitted, cpc,
                 hasStarted, out, cancelled>>
  /\ UNCHANGED <<authVars, adaptVars, completionVars, auxVars>>

\* parseSSEStream: scanner.Scan() returns false.  At the end of the body
\* scanner.Err() is nil; a body that breaks off gives an error.
ScanEnd ==
  /\ ppc = "scan"
  /\ pending = <<>>
  /\ ~cancelled
  /\ lines = <<>>
  /\ \E readErr \in BOOLEAN : ppc' = IF readErr THEN "fail" ELSE "close"
  /\ UNCHANGED <<options, received, handed, lines, nEvents, buffer, hasStartedThinking,
                 hasClosedThinking, fakeIdx, pending, chunkChan, chanClosed,
                 emitted, cpc, hasStarted, out, cancelled>>
  /\ UNCHANGED <<authVars, adaptVars, completionVars, auxVars>>

\* parseSSEStream with the context done: the select returns ctx.Err() after
\* a line was scanned, a read of the body fails, or the body had already
\* ended and scanner.Err() is nil
ScanCancelled ==
  /\ ppc = "scan"
  /\ pending = <<>>
  /\ cancelled
  /\ \/ ppc' = "fail"
     \/ lines = <<>> /\ ppc' = "close"
  /\ UNCHANGED <<options, received, handed, lines, nEvents, buffer, hasStartedThinking,
                 hasClosedThinking, fakeIdx, pending, chunkChan, chanClosed,
                 emitted, cpc, hasStarted, out, cancelled>>
  /\ UNCHANGED <<authVars, adaptVars, completionVars, auxVars>>

\* processSSEData / processPart: the next chunk of the payload is sent
SendChunk ==
  /\ pending # <<>>
  /\ Send(Head(pending))
  /\ pending' = Tail(pending)
  /\ UNCHANGED <<options, received, handed, lines, nEvents, buffer, hasStartedThinking,
                 hasClosedThinking, ppc, fakeIdx, chanClosed, cpc, hasStarted,
                 out, cancelled>>
  /\ UNCHANGED <<authVars, adaptVars, completionVars, auxVars>>

\* (variant: the goroutine drops the error of performStreamRequest)
StreamErrorSilent ==
  /\ ppc = "fail"
  /\ ppc' = "close"
  /\ UNCHANGED <<options, received, handed, lines, nEvents, buffer, hasStartedThinking,
                 hasClosedThinking, fakeIdx, pending, chunkChan, chanClosed,
                 emitted, cpc, hasStarted, out, cancelled>>
  /\ UNCHANGED <<authVars, adaptVars, completionVars, auxVars>>

\* StreamContent's goroutine: performStreamRequest returned an error, which
\* goes out as text
StreamError ==
  /\ ppc = "fail"
  /\ Send(ErrorChunk)
  /\ ppc' = "close"
  /\ UNCHANGED <<options, received, handed, lines, nEvents, buffer, hasStartedThinking,
                 hasClosedThinking, fakeIdx, pending, chanClosed, cpc,
                 hasStarted, out, cancelled>>
  /\ UNCHANGED <<authVars, adaptVars, completionVars, auxVars>>

\* StreamContent's goroutine returns: the deferred close(chunkChan)
CloseChan ==
  /\ ppc = "close"
  /\ chanClosed' = TRUE
  /\ ppc' = "done"
  /\ UNCHANGED <<options, received, handed, lines, nEvents, buffer, hasStartedThinking,
                 hasClosedThinking, fakeIdx, pending, chunkChan, emitted, cpc,
                 hasStarted, out, cancelled>>
  /\ UNCHANGED <<authVars, adaptVars, completionVars, auxVars>>

\* ------------------------------------------------------------------------
\* Credential cache and broker: data
\* ------------------------------------------------------------------------
TokenBufferTime == 300        \* 5 * time.Minute, in seconds
StatusOK == 200
StatusUnauthorized == 401

MaxNow == 400                 \* the clock stops here
MaxOps == 2                   \* operations of the goroutine of SpecAuth
MaxConcOps == 1               \* operations of each goroutine of SpecConc
TickSteps == {200}            \* seconds the clock advances in one step

Procs == {"g1", "g2"}
NoProc == "none"

NoToken == [exists |-> FALSE]
CachedTokenData(tok, expiry, at) ==
  [AccessToken |-> tok, ExpiryDate |-> expiry, CachedAt |-> at]

\* The embedded bundle: unset, not JSON, or OAuth2Credentials with
\* expiry_date in milliseconds
MissingBundle == [kind |-> "missing"]
MalformedBundle == [kind |-> "malformed"]
Bundles ==
  {MissingBundle, MalformedBundle} \cup
  [kind : {"bundle"}, access_token : {"embedded"}, refresh_token : {"rt"},
   expiry_date : {250999, 700000}]

\* Answers of the identity provider's token endpoint.  status 0 stands for
\* a transport error; body "empty" is JSON without the expected fields.
ExpiresIns == {200, 3600}
RefreshResponses ==
  {[status |-> 0, body |-> "", expires_in |-> 0],
   [status |-> 500, body |-> "", expires_in |-> 0],
   [status |-> StatusOK, body |-> "garbage", expires_in |-> 0],
   [status |-> StatusOK, body |-> "empty", expires_in |-> 0]} \cup
  [status : {StatusOK}, body : {"token"}, expires_in : ExpiresIns]

\* The access token of the n-th refresh exchange
IssuedToken(n) == "refreshed " \o ToString(n)

\* Answers of the upstream streaming endpoint (0: transport error)
UpstreamStatuses == {0, StatusOK, StatusUnauthorized, 500}

\* ------------------------------------------------------------------------
\* Credential cache and broker: pure parts
\* ------------------------------------------------------------------------
\* var oauth2Creds types.OAuth2Credentials
ZeroCredentials ==
  [kind |-> "bundle", access_token |-> "", refresh_token |-> "",
   expiry_date |-> 0]

\* (variant: the error of json.Unmarshal is dropped)
UnmarshalUnchecked(cfg) ==
  [err |-> FALSE, creds |-> IF cfg.kind = "bundle" THEN cfg ELSE ZeroCredentials]

\* json.Unmarshal([]byte(a.config.GCPServiceAccount), &oauth2Creds)
Unmarshal(cfg) ==
  IF cfg.kind = "bundle" THEN [err |-> FALSE, creds |-> cfg]
  ELSE [err |-> TRUE, creds |-> ZeroCredentials]

\* (variant: getCachedToken never finds an entry)
CachedTokenNever(c, t) == NoToken

\* getCachedToken: the entry it returns for cache content c at time t
CachedTokenAt(c, t) == IF c # NoToken /\ t < c.ExpiryDate THEN c ELSE NoToken

\* time.Until(expiry) > constants.TokenBufferTime
BeyondBuffer(expiry, t) == expiry - t > TokenBufferTime

\* InitializeAuth: the cached token is used
UseCached(cached, t) == cached # NoToken /\ BeyondBuffer(cached.ExpiryDate, t)

\* time.Unix(oauth2Creds.ExpiryDate/1000, 0)
ExpiryTime(creds) == creds.expiry_date \div 1000

\* (variant: the embedded token is never used)
UseEmbeddedNever(creds, t) == FALSE

\* InitializeAuth: the embedded token is used
UseEmbedded(creds, t) == BeyondBuffer(ExpiryTime(creds), t)

\* (variant: the 401 branch is taken on every 401)
RetryOnEvery401(status, isRetry) == status = StatusUnauthorized

\* performStreamRequestWithRetry: the 401 branch is taken
RetryOn(status, isRetry) == status = StatusUnauthorized /\ ~isRetry

\* sync.RWMutex
FreeMutex == [readers |-> {}, writer |-> NoProc]
CanRLock(mu) == mu.writer = NoProc
CanLock(mu) == mu.writer = NoProc /\ mu.readers = {}

\* ------------------------------------------------------------------------
\* Credential cache and broker: bookkeeping of calls
\* ------------------------------------------------------------------------
NoAcq == [src |-> "", cache0 |-> NoToken, now0 |-> 0, refresh0 |-> 0,
          setAt |-> 0, expiresIn |-> 0]

\* Locals of a goroutine: the call it runs (op, ret), the locals of
\* InitializeAuth (cached, tok, expiry) and of performStreamRequestWithRetry
\* (isRetry), and what the observer noted about the operation: the snapshot
\* of the running InitializeAuth (acq), the calls of the streaming endpoint
\* with their token and status (calls), the outcome of the
\* re-authentication (reauth), the calls completed before the second call
\* of the endpoint (histAtRetry), and the result of the operation
LocInit ==
  [op |-> "", ret |-> "idle", cached |-> NoToken, tok |-> "", expiry |-> 0,
   isRetry |-> FALSE, acq |-> NoAcq,
   calls |-> <<>>, reauth |-> "none", histAtRetry |-> <<>>, result |-> ""]

\* The locals of InitializeAuth are gone when it returns
Popped(l) == [l EXCEPT !.cached = NoToken, !.tok = "", !.expiry = 0,
                       !.acq = NoAcq]

\* Record of a completed InitializeAuth
AcquireRecord(p, ok, acq, tok, expiry, refreshes, cacheAfter) ==
  [call |-> "acquire", by |-> p, ok |-> ok, src |-> acq.src,
   cache0 |-> acq.cache0, now0 |-> acq.now0, refresh0 |-> acq.refresh0,
   now1 |-> now, refresh1 |-> refreshes, cache1 |-> cacheAfter,
   token |-> tok, expiry |-> expiry, setAt |-> acq.setAt,
   expiresIn |-> acq.expiresIn]

\* Record of a completed ClearTokenCache
InvalidateRecord(p) ==
  [call |-> "invalidate", by |-> p, ok |-> TRUE, src |-> "",
   cache0 |-> NoToken, now0 |-> now, refresh0 |-> refreshCount,
   now1 |-> now, refresh1 |-> refreshCount, cache1 |-> NoToken,
   token |-> "", expiry |-> 0, setAt |-> 0, expiresIn |-> 0]

Remember(h, r) ==
  IF ~h.on THEN h
  ELSE [h EXCEPT !.calls = IF Len(@) < 2 THEN Append(@, r) ELSE <<@[2], r>>]

\* The observer notes in the locals where the token of this call came from
Note(l, src, setAt, expiresIn) ==
  IF ~hist.on THEN l
  ELSE [l EXCEPT !.acq.src = src, !.acq.setAt = setAt,
                 !.acq.expiresIn = expiresIn]

\* The observer notes the result of a streaming operation, the outcome of
\* its re-authentication, a call of the streaming endpoint
NoteResult(l, r) == IF ~hist.on THEN l ELSE [l EXCEPT !.result = r]
NoteReauth(l, r) == IF ~hist.on THEN l ELSE [l EXCEPT !.reauth = r]
NoteCall(l, tok, status) ==
  IF ~hist.on THEN l
  ELSE [l EXCEPT !.calls = Append(@, [token |-> tok, status |-> status]),
                 !.histAtRetry = IF l.isRetry THEN hist.calls ELSE @]

AuthInit(ops, observe) ==
  /\ config \in Bundles
  /\ accessToken = ""
  /\ cache = NoToken
  /\ cacheMu = FreeMutex
  /\ now = 0
  /\ pc = [p \in Procs |-> "idle"]
  /\ loc = [p \in Procs |-> LocInit]
  /\ refreshCount = 0
  /\ hist = [on |-> observe, calls |-> <<>>]
  /\ opsLeft = ops

\* The AuthManager as constructed and never used: the state of the
\* credential variables in the specification of the stream pipeline
AuthUnused ==
  /\ config = MissingBundle
  /\ accessToken = ""
  /\ cache = NoToken
  /\ cacheMu = FreeMutex
  /\ now = 0
  /\ pc = [p \in Procs |-> "idle"]
  /\ loc = [p \in Procs |-> LocInit]
  /\ refreshCount = 0
  /\ hist = [on |-> FALSE, calls |-> <<>>]
  /\ opsLeft = [p \in Procs |-> 0]

\* One streaming request that has not started: the state of the stream
\* variables in the specifications of the AuthManager
StreamUnused ==
  /\ options = [EnableFakeThinking |-> FALSE, StreamThinkingAsContent |-> FALSE]
  /\ received = <<>>
  /\ handed = <<>>
  /\ lines = <<>>
  /\ nEvents = 0
  /\ buffer = <<>>
  /\ hasStartedThinking = FALSE
  /\ hasClosedThinking = FALSE
  /\ ppc = "none"
  /\ fakeIdx = 0
  /\ pending = <<>>
  /\ chunkChan = <<>>
  /\ chanClosed = FALSE
  /\ emitted = <<>>
  /\ cpc = "unused"
  /\ hasStarted = FALSE
  /\ out = <<>>
  /\ cancelled = FALSE

\* ------------------------------------------------------------------------
\* Credential cache and broker: operations, one goroutine p at a time
\* ------------------------------------------------------------------------
\* Where a goroutine goes on when InitializeAuth returns to loc.ret
AfterInit(l, ok) ==
  CASE l.ret = "sc_after_init" ->
         IF ok THEN [pc |-> "sr_call", loc |-> l]
         ELSE [pc |-> "idle",
               loc |-> [NoteResult(l, "error") EXCEPT !.ret = "idle"]]
    [] l.ret = "sr_after_init" ->
         IF ok THEN [pc |-> "sr_call",
                     loc |-> [NoteReauth(l, "ok") EXCEPT !.isRetry = TRUE]]
         ELSE [pc |-> "idle",
               loc |-> [NoteResult(NoteReauth(l, "failed"), "error")
                          EXCEPT !.isRetry = FALSE, !.ret = "idle"]]
    [] l.ret = "ce_after_init" ->
         IF ok THEN [pc |-> "ce_call", loc |-> l]
         ELSE [pc |-> "idle",
               loc |-> [l EXCEPT !.isRetry = FALSE, !.ret = "idle"]]
    [] l.ret = "ce_reauth" ->
         IF ok THEN [pc |-> "ia_start",
                     loc |-> [l EXCEPT !.isRetry = TRUE,
                                       !.ret = "ce_after_init"]]
         ELSE [pc |-> "idle",
               loc |-> [l EXCEPT !.isRetry = FALSE, !.ret = "idle"]]
    [] OTHER -> [pc |-> "idle", loc |-> [l EXCEPT !.ret = "idle"]]

\* Where a goroutine goes on when ClearTokenCache returns to loc.ret
AfterClear(l) ==
  CASE l.ret = "rt_after_clear" ->
         [pc |-> "ia_start", loc |-> [l EXCEPT !.ret = "idle"]]
    [] l.ret = "sr_after_clear" ->
         [pc |-> "ia_start", loc |-> [l EXCEPT !.ret = "sr_after_init"]]
    [] l.ret = "ce_after_clear" ->
         [pc |-> "ce_reset", loc |-> l]
    [] OTHER -> [pc |-> "idle", loc |-> [l EXCEPT !.ret = "idle"]]

\* InitializeAuth returns
ReturnInit(p, l, ok, tok, expiry, refreshes, cacheAfter) ==
  LET k == AfterInit(Popped(l), ok)
  IN  /\ pc' = [pc EXCEPT ![p] = k.pc]
      /\ loc' = [loc EXCEPT ![p] = k.loc]
      /\ hist' = Remember(hist, AcquireRecord(p, ok, l.acq, tok, expiry,
                                              refreshes, cacheAfter))

Start(p, op, ret, at) ==
  /\ pc[p] = "idle"
  /\ opsLeft[p] > 0
  /\ opsLeft' = [opsLeft EXCEPT ![p] = @ - 1]
  /\ loc' = [loc EXCEPT ![p] = [LocInit EXCEPT
                                  !.op = IF hist.on THEN op ELSE "",
                                  !.ret = ret]]
  /\ pc' = [pc EXCEPT ![p] = at]
  /\ UNCHANGED <<config, accessToken, cache, cacheMu, now, refreshCount, hist>>
  /\ UNCHANGED <<streamVars, adaptVars, completionVars, auxVars>>

\* a caller runs InitializeAuth
StartAcquire(p) == Start(p, "acquire", "idle", "ia_start")

\* a caller runs ClearTokenCache (DebugHandler.ClearCache)
StartInvalidate(p) == Start(p, "invalidate", "idle", "clr_lock")

\* a caller runs GetCachedTokenInfo
StartInfo(p) == Start(p, "info", "idle", "info_rlock")

\* DebugHandler.RefreshToken: ClearTokenCache, then InitializeAuth
StartRefreshToken(p) == Start(p, "refresh_token", "rt_after_clear", "clr_lock")

\* Client.StreamContent: InitializeAuth, then performStreamRequest (the
\* project id is configured, DiscoverProjectID makes no call)
StartStream(p) == Start(p, "stream", "sc_after_init", "ia_start")

\* InitializeAuth: the configuration check, then getCachedToken's RLock
InitializeAuthEnter(p) ==
  /\ pc[p] = "ia_start"
  /\ LET acq == IF hist.on
                THEN [NoAcq EXCEPT !.cache0 = cache, !.now0 = now,
                                   !.refresh0 = refreshCount]
                ELSE NoAcq
         l == [loc[p] EXCEPT !.acq = acq]
     IN  IF config = MissingBundle
         THEN /\ ReturnInit(p, l, FALSE, "", 0, refreshCount, cache)
              /\ UNCHANGED cacheMu
         ELSE /\ CanRLock(cacheMu)
              /\ cacheMu' = [cacheMu EXCEPT !.readers = @ \cup {p}]
              /\ pc' = [pc EXCEPT ![p] = "gc_read"]
              /\ loc' = [loc EXCEPT ![p] = l]
              /\ UNCHANGED hist
  /\ UNCHANGED <<config, accessToken, cache, now, refreshCount, opsLeft>>
  /\ UNCHANGED <<streamVars, adaptVars, completionVars, auxVars>>

\* getCachedToken: look the entry up; return it (RUnlock) unless it has
\* expired
GetCachedTokenRead(p) ==
  /\ pc[p] = "gc_read"
  /\ IF cache # NoToken /\ CachedTokenAt(cache, now) = NoToken
     THEN /\ pc' = [pc EXCEPT ![p] = "gc_delete"]
          /\ UNCHANGED <<loc, cacheMu>>
     ELSE /\ loc' = [loc EXCEPT ![p].cached = CachedTokenAt(cache, now)]
          /\ cacheMu' = [cacheMu EXCEPT !.readers = @ \ {p}]
          /\ pc' = [pc EXCEPT ![p] = "ia_check"]
  /\ UNCHANGED <<config, accessToken, cache, now, refreshCount, hist, opsLeft>>
  /\ UNCHANGED <<streamVars, adaptVars, completionVars, auxVars>>

\* getCachedToken: the expired entry is deleted from the map, then RUnlock
GetCachedTokenDelete(p) ==
  /\ pc[p] = "gc_delete"
  /\ cache' = NoToken
  /\ loc' = [loc EXCEPT ![p].cached = NoToken]
  /\ cacheMu' = [cacheMu EXCEPT !.readers = @ \ {p}]
  /\ pc' = [pc EXCEPT ![p] = "ia_check"]
  /\ UNCHANGED <<config, accessToken, now, refreshCount, hist, opsLeft>>
  /\ UNCHANGED <<streamVars, adaptVars, completionVars, auxVars>>

\* InitializeAuth after getCachedToken: use the cached token, else parse
\* the bundle and use its token, else go and refresh
InitializeAuthChoose(p) ==
  /\ pc[p] = "ia_check"
  /\ LET l == loc[p]
     IN  IF UseCached(l.cached, now)
         THEN /\ accessToken' = l.cached.AccessToken
              /\ ReturnInit(p, Note(l, "cache", now, 0), TRUE,
                            l.cached.AccessToken, l.cached.ExpiryDate,
                            refreshCount, cache)
         ELSE IF Unmarshal(config).err
         THEN /\ ReturnInit(p, l, FALSE, "", 0, refreshCount, cache)
              /\ UNCHANGED accessToken
         ELSE IF UseEmbedded(Unmarshal(config).creds, now)
         THEN /\ accessToken' = Unmarshal(config).creds.access_token
              /\ loc' = [loc EXCEPT ![p] =
                           [Note(l, "embedded", now, 0) EXCEPT
                              !.tok = Unmarshal(config).creds.access_token,
                              !.expiry = ExpiryTime(Unmarshal(config).creds)]]
              /\ pc' = [pc EXCEPT ![p] = "ct_lock"]
              /\ UNCHANGED hist
         ELSE /\ pc' = [pc EXCEPT ![p] = "rf_exchange"]
              /\ UNCHANGED <<accessToken, loc, hist>>
  /\ UNCHANGED <<config, cache, cacheMu, now, refreshCount, opsLeft>>
  /\ UNCHANGED <<streamVars, adaptVars, completionVars, auxVars>>

\* refreshAndCacheToken: the POST to the token endpoint and what it does
\* with the answer, up to the call of cacheToken
RefreshAndCacheToken(p) ==
  /\ pc[p] = "rf_exchange"
  /\ refreshCount' = refreshCount + 1
  /\ \E resp \in RefreshResponses :
       LET l == Note(loc[p], "refresh", now, resp.expires_in)
       IN  IF resp.status # StatusOK \/ resp.body = "garbage"
           THEN /\ ReturnInit(p, l, FALSE, "", 0, refreshCount + 1, cache)
                /\ UNCHANGED accessToken
           ELSE LET tok == IF resp.body = "token"
                           THEN IssuedToken(refreshCount + 1) ELSE ""
                IN  /\ accessToken' = tok
                    /\ loc' = [loc EXCEPT ![p] =
                                 [l EXCEPT !.tok = tok,
                                           !.expiry = now + resp.expires_in]]
                    /\ pc' = [pc EXCEPT ![p] = "ct_lock"]
                    /\ UNCHANGED hist
  /\ UNCHANGED <<config, cache, cacheMu, now, opsLeft>>
  /\ UNCHANGED <<streamVars, adaptVars, completionVars, auxVars>>

\* cacheToken: cacheMu.Lock()
CacheTokenLock(p) ==
  /\ pc[p] = "ct_lock"
  /\ CanLock(cacheMu)
  /\ cacheMu' = [cacheMu EXCEPT !.writer = p]
  /\ pc' = [pc EXCEPT ![p] = "ct_write"]
  /\ UNCHANGED <<config, accessToken, cache, now, loc, refreshCount, hist,
                 opsLeft>>
  /\ UNCHANGED <<streamVars, adaptVars, completionVars, auxVars>>

\* cacheToken: the entry is written, Unlock; InitializeAuth returns nil
CacheTokenWrite(p) ==
  /\ pc[p] = "ct_write"
  /\ LET l == loc[p]
         entry == CachedTokenData(l.tok, l.expiry, now)
     IN  /\ cache' = entry
         /\ ReturnInit(p, l, TRUE, l.tok, l.expiry, refreshCount, entry)
  /\ cacheMu' = [cacheMu EXCEPT !.writer = NoProc]
  /\ UNCHANGED <<config, accessToken, now, refreshCount, opsLeft>>
  /\ UNCHANGED <<streamVars, adaptVars, completionVars, auxVars>>

\* ClearTokenCache: cacheMu.Lock()
ClearTokenCacheLock(p) ==
  /\ pc[p] = "clr_lock"
  /\ CanLock(cacheMu)
  /\ cacheMu' = [cacheMu EXCEPT !.writer = p]
  /\ pc' = [pc EXCEPT ![p] = "clr_delete"]
  /\ UNCHANGED <<config, accessToken, cache, now, loc, refreshCount, hist,
                 opsLeft>>
  /\ UNCHANGED <<streamVars, adaptVars, completionVars, auxVars>>

\* ClearTokenCache: the entry is deleted, Unlock
ClearTokenCacheDelete(p) ==
  /\ pc[p] = "clr_delete"
  /\ cache' = NoToken
  /\ cacheMu' = [cacheMu EXCEPT !.writer = NoProc]
  /\ hist' = Remember(hist, InvalidateRecord(p))
  /\ LET k == AfterClear(loc[p])
     IN  /\ pc' = [pc EXCEPT ![p] = k.pc]
         /\ loc' = [loc EXCEPT ![p] = k.loc]
  /\ UNCHANGED <<config, accessToken, now, refreshCount, opsLeft>>
  /\ UNCHANGED <<streamVars, adaptVars, completionVars, auxVars>>

\* GetCachedTokenInfo: cacheMu.RLock()
GetCachedTokenInfoLock(p) ==
  /\ pc[p] = "info_rlock"
  /\ CanRLock(cacheMu)
  /\ cacheMu' = [cacheMu EXCEPT !.readers = @ \cup {p}]
  /\ pc' = [pc EXCEPT ![p] = "info_read"]
  /\ UNCHANGED <<config, accessToken, cache, now, loc, refreshCount, hist,
                 opsLeft>>
  /\ UNCHANGED <<streamVars, adaptVars, completionVars, auxVars>>

\* GetCachedTokenInfo: the entry is read, RUnlock
GetCachedTokenInfoRead(p) ==
  /\ pc[p] = "info_read"
  /\ cacheMu' = [cacheMu EXCEPT !.readers = @ \ {p}]
  /\ pc' = [pc EXCEPT ![p] = "idle"]
  /\ UNCHANGED <<config, accessToken, cache, now, loc, refreshCount, hist,
                 opsLeft>>
  /\ UNCHANGED <<streamVars, adaptVars, completionVars, auxVars>>

\* performStreamRequestWithRetry: one call of the streaming endpoint with
\* the current access token, and what follows from its status
PerformStreamRequestWithRetry(p) ==
  /\ pc[p] = "sr_call"
  /\ \E status \in UpstreamStatuses :
       LET l == NoteCall(loc[p], accessToken, status)
           end(r) == [NoteResult(l, r) EXCEPT !.isRetry = FALSE, !.ret = "idle"]
       IN  IF status = 0
           THEN /\ loc' = [loc EXCEPT ![p] = end("error")]
                /\ pc' = [pc EXCEPT ![p] = "idle"]
           ELSE IF RetryOn(status, l.isRetry)
           THEN /\ loc' = [loc EXCEPT ![p] = [l EXCEPT !.ret = "sr_after_clear"]]
                /\ pc' = [pc EXCEPT ![p] = "clr_lock"]
           ELSE IF status # StatusOK
           THEN /\ loc' = [loc EXCEPT ![p] = end("error")]
                /\ pc' = [pc EXCEPT ![p] = "idle"]
           ELSE /\ loc' = [loc EXCEPT ![p] = end("ok")]
                /\ pc' = [pc EXCEPT ![p] = "idle"]
  /\ UNCHANGED <<config, accessToken, cache, cacheMu, now, refreshCount, hist,
                 opsLeft>>
  /\ UNCHANGED <<streamVars, adaptVars, completionVars, auxVars>>

\* AuthManager.CallEndpoint (TestAuthentication, DiscoverProjectID):
\* callEndpointWithRetry begins with InitializeAuth
StartCallEndpoint(p) == Start(p, "call_endpoint", "ce_after_init", "ia_start")

\* callEndpointWithRetry: one call of a Code Assist endpoint with the
\* current access token, and what follows from its status
CallEndpointWithRetry(p) ==
  /\ pc[p] = "ce_call"
  /\ \E status \in UpstreamStatuses :
       IF status # 0 /\ RetryOn(status, loc[p].isRetry)
       THEN /\ loc' = [loc EXCEPT ![p].ret = "ce_after_clear"]
            /\ pc' = [pc EXCEPT ![p] = "clr_lock"]
       ELSE /\ loc' = [loc EXCEPT ![p].isRetry = FALSE, ![p].ret = "idle"]
            /\ pc' = [pc EXCEPT ![p] = "idle"]
  /\ UNCHANGED <<config, accessToken, cache, cacheMu, now, refreshCount, hist,
                 opsLeft>>
  /\ UNCHANGED <<streamVars, adaptVars, completionVars, auxVars>>

\* callEndpointWithRetry on 401, after ClearTokenCache: the current token
\* is set to the empty string under a.mu, then InitializeAuth
ResetAccessToken(p) ==
  /\ pc[p] = "ce_reset"
  /\ accessToken' = ""
  /\ loc' = [loc EXCEPT ![p].ret = "ce_reauth"]
  /\ pc' = [pc EXCEPT ![p] = "ia_start"]
  /\ UNCHANGED <<config, cache, cacheMu, now, refreshCount, hist, opsLeft>>
  /\ UNCHANGED <<streamVars, adaptVars, completionVars, auxVars>>

\* time passes
Tick ==
  /\ \E d \in TickSteps :
       /\ now + d <= MaxNow
       /\ now' = now + d
  /\ UNCHANGED <<config, accessToken, cache, cacheMu, pc, loc, refreshCount,
                 hist, opsLeft>>
  /\ UNCHANGED <<streamVars, adaptVars, completionVars, auxVars>>

\* ------------------------------------------------------------------------
\* Next-state relations of the stream pipeline and of the AuthManager
\* ------------------------------------------------------------------------
StreamNext ==
  \/ StreamContentFails
  \/ StreamContentStarts
  \/ ConsumerReceive
  \/ ConsumerFinish
  \/ Cancel
  \/ FakeThinkingStart
  \/ FakeThinkingChunk
  \/ FakeThinkingError
  \/ PerformStreamRequest
  \/ ScanLine
  \/ ScanEnd
  \/ ScanCancelled
  \/ SendChunk
  \/ StreamError
  \/ CloseChan

AuthNext ==
  \/ \E p \in Procs :
       \/ StartAcquire(p)
       \/ StartInvalidate(p)
       \/ StartInfo(p)
       \/ StartRefreshToken(p)
       \/ StartStream(p)
       \/ InitializeAuthEnter(p)
       \/ GetCachedTokenRead(p)
       \/ GetCachedTokenDelete(p)
       \/ InitializeAuthChoose(p)
       \/ RefreshAndCacheToken(p)
       \/ CacheTokenLock(p)
       \/ CacheTokenWrite(p)
       \/ ClearTokenCacheLock(p)
       \/ ClearTokenCacheDelete(p)
       \/ GetCachedTokenInfoLock(p)
       \/ GetCachedTokenInfoRead(p)
       \/ PerformStreamRequestWithRetry(p)
  \/ Tick

\* ------------------------------------------------------------------------
\* Buffered completion: GetCompletion and handleNonStreamingResponse
\* ------------------------------------------------------------------------
NoResponse == [kind |-> "none"]
ErrorResponse == [kind |-> "error", error |-> "Completion failed"]

\* (variant: a collector that appends the text of every chunk that carries
\* a string)
CollectEveryString(res, chunk) ==
  IF chunk.Type \in {"text", "thinking_content", "real_thinking"}
  THEN [res EXCEPT !.Content = @ \o chunk.Data]
  ELSE IF chunk.Type = "usage" THEN [res EXCEPT !.Usage = chunk.Data]
  ELSE res

\* GetCompletion, the body of its range loop: res = [Content, Usage]
Collect(res, chunk) ==
  IF chunk.Type = "text" THEN [res EXCEPT !.Content = @ \o chunk.Data]
  ELSE IF chunk.Type = "usage" THEN [res EXCEPT !.Usage = chunk.Data]
  ELSE res

\* handleNonStreamingResponse: the response built from a CompletionResult
CompletionResponse(c, u) ==
  [kind |-> "completion",
   role |-> "assistant",
   content |-> c,
   finish_reason |-> "stop",
   usage |-> IF u = NoUsage THEN NoUsage
             ELSE [PromptTokens |-> u.InputTokens,
                   CompletionTokens |-> u.OutputTokens,
                   TotalTokens |-> u.InputTokens + u.OutputTokens]]

\* GetCompletion has not been called, or has just been called
CompletionInit ==
  /\ result = [Content |-> "", Usage |-> NoUsage]
  /\ response = NoResponse

\* The message conversion is not looked at
AdaptUnused ==
  /\ messages = <<>>
  /\ apc = "unused"
  /\ aidx = 0
  /\ systemPrompt = ""
  /\ otherMessages = <<>>
  /\ contents = <<>>

\* A buffered request that has not yet called StreamContent
BufferedInit ==
  /\ options \in [EnableFakeThinking : BOOLEAN, StreamThinkingAsContent : BOOLEAN]
  /\ received = <<>>
  /\ handed = <<>>
  /\ lines = <<>>
  /\ nEvents = 0
  /\ buffer = <<>>
  /\ hasStartedThinking = FALSE
  /\ hasClosedThinking = FALSE
  /\ ppc = "none"
  /\ fakeIdx = 0
  /\ pending = <<>>
  /\ chunkChan = <<>>
  /\ chanClosed = FALSE
  /\ emitted = <<>>
  /\ cpc = "call"
  /\ hasStarted = FALSE
  /\ out = <<>>
  /\ cancelled = FALSE

\* GetCompletion: StreamContent returns an error, the handler answers with
\* an error response
GetCompletionFails ==
  /\ cpc = "call"
  /\ response' = ErrorResponse
  /\ cpc' = "returned"
  /\ cancelled' = TRUE
  /\ UNCHANGED <<options, received, handed, lines, nEvents, buffer, hasStartedThinking,
                 hasClosedThinking, ppc, fakeIdx, pending, chunkChan,
                 chanClosed, emitted, hasStarted, out>>
  /\ UNCHANGED result
  /\ UNCHANGED <<authVars, adaptVars, auxVars>>

\* GetCompletion: StreamContent returns the channel
GetCompletionStarts ==
  /\ cpc = "call"
  /\ cpc' = "collect"
  /\ ppc' = IF options.EnableFakeThinking THEN "fake" ELSE "request"
  /\ UNCHANGED <<options, received, handed, lines, nEvents, buffer, hasStartedThinking,
                 hasClosedThinking, fakeIdx, pending, chunkChan, chanClosed,
                 emitted, hasStarted, out, cancelled>>
  /\ UNCHANGED <<authVars, adaptVars, completionVars, auxVars>>

\* GetCompletion: one iteration of "for chunk := range chunkChan"
GetCompletionReceive ==
  /\ cpc = "collect"
  /\ chunkChan # <<>>
  /\ chunkChan' = Tail(chunkChan)
  /\ result' = Collect(result, Head(chunkChan))
  /\ UNCHANGED <<options, received, handed, lines, nEvents, buffer, hasStartedThinking,
                 hasClosedThinking, ppc, fakeIdx, pending, chanClosed, emitted,
                 cpc, hasStarted, out, cancelled>>
  /\ UNCHANGED response
  /\ UNCHANGED <<authVars, adaptVars, auxVars>>

\* GetCompletion returns on the closed, drained channel and
\* handleNonStreamingResponse answers; its deferred cancel() runs
GetCompletionReturn ==
  /\ cpc = "collect"
  /\ chunkChan = <<>>
  /\ chanClosed
  /\ response' = CompletionResponse(result.Content, result.Usage)
  /\ cpc' = "returned"
  /\ cancelled' = TRUE
  /\ UNCHANGED <<options, received, handed, lines, nEvents, buffer, hasStartedThinking,
                 hasClosedThinking, ppc, fakeIdx, pending, chunkChan,
                 chanClosed, emitted, hasStarted, out>>
  /\ UNCHANGED result
  /\ UNCHANGED <<authVars, adaptVars, auxVars>>

BufferedNext ==
  \/ GetCompletionFails
  \/ GetCompletionStarts
  \/ GetCompletionReceive
  \/ GetCompletionReturn
  \/ Cancel
  \/ FakeThinkingStart
  \/ FakeThinkingChunk
  \/ FakeThinkingError
  \/ PerformStreamRequest
  \/ ScanLine
  \/ ScanEnd
  \/ ScanCancelled
  \/ SendChunk
  \/ StreamError
  \/ CloseChan

\* ------------------------------------------------------------------------
\* Message adapter: extractSystemPrompt, convertMessagesToGeminiFormat
\* ------------------------------------------------------------------------
MaxMessages == 3    \* messages of one request

\* ChatMessage.Content: a string, or a list of content maps
StringContent(t) == [kind |-> "string", text |-> t]
\* any other JSON value (a number, an object, null); text is what
\* fmt.Sprintf("%v", ...) makes of it
OtherValueContent(t) == [kind |-> "other", text |-> t]
ListContent(ps) == [kind |-> "list", parts |-> ps]
TextContent(t) == [type |-> "text", text |-> t]
ImageContent(u) == [type |-> "image_url", url |-> u]
OtherContent == [type |-> "input_audio"]
\* a content map whose "type" is absent or is not a string
UntypedContent == [type |-> "<absent>"]

ChatMessage(role, c) == [Role |-> role, Content |-> c]

\* ChatMessage.Role is a string no handler checks: the three roles of the
\* client format and one more
Roles == {"system", "user", "assistant", "tool"}
MessageContents ==
  { StringContent("x"), StringContent("y"), StringContent(""),
    ListContent(<<TextContent("p"), OtherContent, ImageContent("valid"),
                  TextContent("q")>>),
    ListContent(<<UntypedContent>>),
    ListContent(<<ImageContent("invalid")>>) }
ChatMessages ==
  { ChatMessage(r, c) : r \in Roles, c \in MessageContents }
  \cup { ChatMessage(r, OtherValueContent("42")) : r \in {"system", "user"} }

\* validateChatCompletionRequest lets through every list that is not empty
MessageLists == UNION { [1..n -> ChatMessages] : n \in 1..MaxMessages }

\* strings.Join
RECURSIVE Join(_, _)
Join(strs, sep) ==
  IF strs = <<>> THEN ""
  ELSE IF Len(strs) = 1 THEN strs[1]
  ELSE strs[1] \o sep \o Join(Tail(strs), sep)

\* extractSystemPrompt: textParts of a list content
RECURSIVE TextParts(_)
TextParts(ps) ==
  IF ps = <<>> THEN <<>>
  ELSE (IF Head(ps).type = "text" THEN <<Head(ps).text>> ELSE <<>>)
       \o TextParts(Tail(ps))

\* (variant: of a list content only the first text sub-part is taken)
SystemTextFirst(sp, msg) ==
  IF msg.Content.kind = "string" THEN msg.Content.text
  ELSE IF msg.Content.kind = "list"
       THEN (IF TextParts(msg.Content.parts) = <<>> THEN ""
             ELSE TextParts(msg.Content.parts)[1])
  ELSE sp

\* extractSystemPrompt: systemPrompt after a system message msg, sp before
SystemTextOf(sp, msg) ==
  IF msg.Content.kind = "string" THEN msg.Content.text
  ELSE IF msg.Content.kind = "list" THEN Join(TextParts(msg.Content.parts), " ")
  ELSE sp

\* convertContentToGeminiPart: [err, part], part = <<>> for a nil part
ConvertContentToGeminiPart(c) ==
  IF c = UntypedContent THEN [err |-> TRUE, part |-> <<>>]
  ELSE IF c.type = "text" THEN [err |-> FALSE, part |-> <<[Text |-> c.text]>>]
  ELSE IF c.type = "image_url"
       THEN IF c.url = "valid"
            THEN [err |-> FALSE, part |-> <<[FileData |-> c.url]>>]
            ELSE [err |-> TRUE, part |-> <<>>]
  ELSE [err |-> FALSE, part |-> <<>>]

RECURSIVE ConvertParts(_)
ConvertParts(ps) ==
  IF ps = <<>> THEN [err |-> FALSE, parts |-> <<>>]
  ELSE LET h == ConvertContentToGeminiPart(Head(ps))
           t == ConvertParts(Tail(ps))
       IN  IF h.err \/ t.err THEN [err |-> TRUE, parts |-> <<>>]
           ELSE [err |-> FALSE, parts |-> h.part \o t.parts]

GeminiFormattedMessage(role, parts) == [Role |-> role, Parts |-> parts]

\* convertMessageToGeminiFormat: [err, msg]
ConvertMessageToGeminiFormat(msg) ==
  LET role == IF msg.Role = "assistant" THEN "model" ELSE msg.Role
  IN  IF msg.Content.kind = "string"
      THEN [err |-> FALSE,
            msg |-> GeminiFormattedMessage(role, <<[Text |-> msg.Content.text]>>)]
      ELSE IF msg.Content.kind = "list"
      THEN LET r == ConvertParts(msg.Content.parts)
           IN  [err |-> r.err, msg |-> GeminiFormattedMessage(role, r.parts)]
      ELSE [err |-> FALSE,
            msg |-> GeminiFormattedMessage(role, <<[Text |-> msg.Content.text]>>)]

\* StreamContent: the synthetic turn that carries the system prompt
SystemContent(sp) == GeminiFormattedMessage("user", <<[Text |-> sp]>>)

\* (variant: the system turn is put after the converted messages)
AppendSystemContent(sp, cs) ==
  IF sp # "" THEN cs \o <<SystemContent(sp)>> ELSE cs

\* StreamContent: "Add system prompt if provided"
PrependSystemContent(sp, cs) ==
  IF sp # "" THEN <<SystemContent(sp)>> \o cs ELSE cs

\* StreamContent is about to convert the messages of a request
AdaptInit ==
  /\ messages \in MessageLists
  /\ apc = "extract"
  /\ aidx = 0
  /\ systemPrompt = ""
  /\ otherMessages = <<>>
  /\ contents = <<>>

\* extractSystemPrompt: one iteration of its loop
ExtractStep ==
  /\ apc = "extract"
  /\ aidx < Len(messages)
  /\ LET msg == messages[aidx + 1]
     IN  IF msg.Role = "system"
         THEN /\ systemPrompt' = SystemTextOf(systemPrompt, msg)
              /\ UNCHANGED otherMessages
         ELSE /\ otherMessages' = Append(otherMessages, msg)
              /\ UNCHANGED systemPrompt
  /\ aidx' = aidx + 1
  /\ UNCHANGED <<messages, apc, contents>>
  /\ UNCHANGED <<streamVars, authVars, completionVars, auxVars>>

\* extractSystemPrompt returns
ExtractReturn ==
  /\ apc = "extract"
  /\ aidx = Len(messages)
  /\ apc' = "convert"
  /\ aidx' = 0
  /\ UNCHANGED <<messages, systemPrompt, otherMessages, contents>>
  /\ UNCHANGED <<streamVars, authVars, completionVars, auxVars>>

\* convertMessagesToGeminiFormat: one iteration of its loop; an error of
\* convertMessageToGeminiFormat ends StreamContent
ConvertStep ==
  /\ apc = "convert"
  /\ aidx < Len(otherMessages)
  /\ LET r == ConvertMessageToGeminiFormat(otherMessages[aidx + 1])
     IN  IF r.err
         THEN /\ apc' = "failed"
              /\ contents' = <<>>
         ELSE /\ contents' = Append(contents, r.msg)
              /\ UNCHANGED apc
  /\ aidx' = aidx + 1
  /\ UNCHANGED <<messages, systemPrompt, otherMessages>>
  /\ UNCHANGED <<streamVars, authVars, completionVars, auxVars>>

\* convertMessagesToGeminiFormat returns and StreamContent adds the system
\* prompt
AddSystemPrompt ==
  /\ apc = "convert"
  /\ aidx = Len(otherMessages)
  /\ contents' = PrependSystemContent(systemPrompt, contents)
  /\ apc' = "done"
  /\ UNCHANGED <<messages, aidx, systemPrompt, otherMessages>>
  /\ UNCHANGED <<streamVars, authVars, completionVars, auxVars>>

AdaptNext ==
  \/ ExtractStep
  \/ ExtractReturn
  \/ ConvertStep
  \/ AddSystemPrompt

\* ------------------------------------------------------------------------
\* Image resolver, request handler and text splitter when not looked at
\* ------------------------------------------------------------------------
NoValidation == [IsValid |-> FALSE, MimeType |-> "", Error |-> "not run"]
NoImagePart == [kind |-> "none"]
NoAnswer == [kind |-> "none"]

ImageUnused ==
  /\ imageURL = <<>>
  /\ ipc = "unused"
  /\ validation = NoValidation
  /\ imagePart = NoImagePart

HandlerUnused ==
  /\ request = [Model |-> "", Messages |-> "none", Stream |-> FALSE]
  /\ hpc = "unused"
  /\ answer = NoAnswer
  /\ effects = <<>>

ChunkerUnused ==
  /\ splitText = <<>>
  /\ chunkSize = 1
  /\ splitChunks = <<>>
  /\ splitIdx = 0
  /\ spc = "unused"

\* Requests NumRequests of the rate limiter, none of them arrived
NumRequests == 4
NoInfo == [exists |-> FALSE]
NoHolder == 0

RateUnused ==
  /\ clients = <<>>
  /\ rateMu = NoHolder
  /\ clock = 0
  /\ reqs = <<>>
  /\ admitted = <<>>

AuxUnused == ImageUnused /\ HandlerUnused /\ ChunkerUnused /\ RateUnused

\* ------------------------------------------------------------------------
\* Image resolver: ValidateImageURL, convertImageURLToGeminiPart
\* ------------------------------------------------------------------------
\* A URL is a sequence of tokens, each standing for the piece of text it
\* shows; the functions below split and compare the text as the code does.
MaxURLTokens == 5   \* tokens of a URL after its scheme

DataPrefix == "data:"
HTTPSchemes == {"http://", "https://"}
OtherSchemes == {"ftp://"}
DataTokens == {"image/png", "image/bmp", ";", ",", "base64", "QUJD"}
HTTPTokens == {"host", "/", "pic", ".", "png", "PNG"}

\* constants.SupportedImageMimeTypes
SupportedImageMimeTypes ==
  {<<"image/jpeg">>, <<"image/jpg">>, <<"image/png">>, <<"image/gif">>,
   <<"image/webp">>}

\* strings.HasPrefix for a prefix that is one token
HasPrefix(str, tok) == str # <<>> /\ str[1] = tok

\* strings.Index for a one-token separator: 0 when it does not occur
Index(str, sep) ==
  IF \E i \in 1..Len(str) : str[i] = sep
  THEN CHOOSE i \in 1..Len(str) :
         str[i] = sep /\ \A j \in 1..(i - 1) : str[j] # sep
  ELSE 0

\* strings.LastIndex
LastIndex(str, sep) ==
  IF \E i \in 1..Len(str) : str[i] = sep
  THEN CHOOSE i \in 1..Len(str) :
         str[i] = sep /\ \A j \in (i + 1)..Len(str) : str[j] # sep
  ELSE 0

\* strings.Split
RECURSIVE Split(_, _)
Split(str, sep) ==
  IF Index(str, sep) = 0 THEN <<str>>
  ELSE <<SubSeq(str, 1, Index(str, sep) - 1)>>
       \o Split(SubSeq(str, Index(str, sep) + 1, Len(str)), sep)

\* base64.StdEncoding.DecodeString succeeds: "QUJD" is a full quantum, the
\* other tokens have a byte outside the alphabet (";", ",") or a length
\* that is not a multiple of four ("base64", "image/png", "image/bmp")
ValidBase64(str) == \A i \in 1..Len(str) : str[i] = "QUJD"

Invalid(msg) == [IsValid |-> FALSE, MimeType |-> <<>>, Error |-> msg]
Valid(mime) == [IsValid |-> TRUE, MimeType |-> mime, Error |-> ""]

\* (variant: a data URL validator without the allow-list test)
ValidateDataURLAnyMime(dataURL) ==
  LET parts == Split(dataURL, ",")
  IN  IF Len(parts) # 2 THEN Invalid("Invalid data URL format")
      ELSE IF ~ValidBase64(parts[2]) THEN Invalid("Invalid base64 data")
      ELSE Valid(Split(Tail(parts[1]), ";")[1])

\* validateDataURL
ValidateDataURL(dataURL) ==
  LET parts == Split(dataURL, ",")
  IN  IF Len(parts) # 2 THEN Invalid("Invalid data URL format")
      ELSE IF ~HasPrefix(parts[1], DataPrefix)
           THEN Invalid("Invalid data URL prefix")
      ELSE LET mimeType == Split(Tail(parts[1]), ";")[1]
           IN  IF mimeType \notin SupportedImageMimeTypes
               THEN Invalid("Unsupported image MIME type")
               ELSE IF ~ValidBase64(parts[2])
                    THEN Invalid("Invalid base64 data")
               ELSE Valid(mimeType)

\* strings.ToLower of a file extension
ToLower(str) == [i \in 1..Len(str) |-> IF str[i] = "PNG" THEN "png" ELSE str[i]]

\* (variant: no look at the extension)
InferAlwaysJPEG(path) == <<"image/jpeg">>

\* inferMimeTypeFromPath
InferMimeTypeFromPath(path) ==
  IF path = <<>> THEN <<"image/jpeg">>
  ELSE IF LastIndex(path, ".") = 0 THEN <<"image/jpeg">>
  ELSE LET ext == ToLower(SubSeq(path, LastIndex(path, ".") + 1, Len(path)))
       IN  IF ext \in {<<"jpg">>, <<"jpeg">>} THEN <<"image/jpeg">>
           ELSE IF ext = <<"png">> THEN <<"image/png">>
           ELSE IF ext = <<"gif">> THEN <<"image/gif">>
           ELSE IF ext = <<"webp">> THEN <<"image/webp">>
           ELSE <<"image/jpeg">>

\* url.Parse of an http(s) URL made of these tokens: the host runs up to the
\* first "/", the path starts there
ParsedHost(httpURL) ==
  IF Index(Tail(httpURL), "/") = 0 THEN Tail(httpURL)
  ELSE SubSeq(Tail(httpURL), 1, Index(Tail(httpURL), "/") - 1)

ParsedPath(httpURL) ==
  IF Index(Tail(httpURL), "/") = 0 THEN <<>>
  ELSE SubSeq(Tail(httpURL), Index(Tail(httpURL), "/"), Len(httpURL) - 1)

\* validateHTTPURL
ValidateHTTPURL(httpURL) ==
  IF httpURL[1] \notin HTTPSchemes
  THEN Invalid("URL must use HTTP or HTTPS scheme")
  ELSE IF ParsedHost(httpURL) = <<>> THEN Invalid("URL must have a valid host")
  ELSE Valid(InferMimeTypeFromPath(ParsedPath(httpURL)))

\* ValidateImageURL
ValidateImageURL(url) ==
  IF url = <<>> THEN Invalid("Image URL cannot be empty")
  ELSE IF HasPrefix(url, DataPrefix) THEN ValidateDataURL(url)
  ELSE IF \E sch \in HTTPSchemes : HasPrefix(url, sch) THEN ValidateHTTPURL(url)
  ELSE Invalid("Invalid image URL format")

\* ExtractBase64Data: [err, mimeType, base64Data]
ExtractBase64Data(dataURL) ==
  LET parts == Split(dataURL, ",")
  IN  IF ~HasPrefix(dataURL, DataPrefix) \/ Len(parts) # 2
         \/ ~ValidBase64(parts[2])
      THEN [err |-> TRUE, mimeType |-> <<>>, base64Data |-> <<>>]
      ELSE [err |-> FALSE,
            mimeType |-> Split(Tail(parts[1]), ";")[1],
            base64Data |-> parts[2]]

ImageError == [kind |-> "error"]
InlineData(mime, data) == [kind |-> "inlineData", MimeType |-> mime, Data |-> data]
FileData(mime, uri) == [kind |-> "fileData", MimeType |-> mime, FileURI |-> uri]

\* An image_url part is about to be converted
ImageInit ==
  /\ \/ imageURL = <<>>
     \/ \E k \in 0..MaxURLTokens : \E t \in [1..k -> DataTokens] :
          imageURL = <<DataPrefix>> \o t
     \/ \E k \in 0..MaxURLTokens : \E t \in [1..k -> HTTPTokens] :
          \E sch \in HTTPSchemes : imageURL = <<sch>> \o t
     \/ \E k \in 0..1 : \E t \in [1..k -> HTTPTokens] :
          \E sch \in OtherSchemes : imageURL = <<sch>> \o t
  /\ ipc = "validate"
  /\ validation = NoValidation
  /\ imagePart = NoImagePart

\* convertImageURLToGeminiPart: the call of ValidateImageURL and the test
\* of its result
ValidateImage ==
  /\ ipc = "validate"
  /\ validation' = ValidateImageURL(imageURL)
  /\ IF validation'.IsValid
     THEN ipc' = "convert" /\ UNCHANGED imagePart
     ELSE ipc' = "done" /\ imagePart' = ImageError
  /\ UNCHANGED imageURL
  /\ UNCHANGED <<streamVars, authVars, adaptVars, completionVars, rateVars, handlerVars,
                 chunkerVars>>

\* convertImageURLToGeminiPart: the part for a validated URL
ConvertImage ==
  /\ ipc = "convert"
  /\ IF HasPrefix(imageURL, DataPrefix)
     THEN LET r == ExtractBase64Data(imageURL)
          IN  imagePart' = IF r.err THEN ImageError
                           ELSE InlineData(r.mimeType, r.base64Data)
     ELSE imagePart' = FileData(validation.MimeType, imageURL)
  /\ ipc' = "done"
  /\ UNCHANGED <<imageURL, validation>>
  /\ UNCHANGED <<streamVars, authVars, adaptVars, completionVars, rateVars, handlerVars,
                 chunkerVars>>

ImageNext ==
  \/ ValidateImage
  \/ ConvertImage

\* ------------------------------------------------------------------------
\* Request handler: OpenAIHandler.ChatCompletions
\* ------------------------------------------------------------------------
MaxRequestMessages == 2   \* messages of a request to the handler

\* models.GeminiCliModels: the registry
GeminiCliModels ==
  [id \in {"gemini-2.5-pro", "gemini-2.5-flash", "gemini-2.0-flash-001",
           "gemini-2.0-flash-lite-preview-02-05", "gemini-2.0-pro-exp-02-05",
           "gemini-1.5-pro", "gemini-1.5-flash"} |->
     [SupportsImages |-> TRUE,
      Thinking |-> id \in {"gemini-2.5-pro", "gemini-2.5-flash"}]]

\* models.IsValidModel
IsValidModel(modelID) == modelID \in DOMAIN GeminiCliModels

\* constants.DefaultModel
DefaultModel == "gemini-2.5-flash"

\* (variant: no model takes images)
SupportsImagesNever(modelID) == FALSE

\* models.SupportsImages
SupportsImages(modelID) ==
  IF modelID \notin DOMAIN GeminiCliModels THEN FALSE
  ELSE GeminiCliModels[modelID].SupportsImages

\* The model names and the messages of the requests looked at
RequestModels == {"gemini-2.5-pro", "gemini-1.5-flash", "invalid-model", ""}
RequestMessages ==
  {ChatMessage("user", StringContent("x")),
   ChatMessage("user", ListContent(<<TextContent("p")>>)),
   ChatMessage("user", ListContent(<<TextContent("p"), ImageContent("valid")>>)),
   ChatMessage("user", ListContent(<<UntypedContent>>))}

\* types.ChatCompletionRequest: Stream is a *bool
ChatCompletionRequests ==
  UNION { [Model : RequestModels,
           Messages : [1..n -> RequestMessages],
           Stream : {"nil", "true", "false"}] : n \in 0..MaxRequestMessages }

\* types.ErrorResponse written with c.JSON
ErrorAnswer(status, err) == [kind |-> "error", status |-> status, error |-> err]

\* The two answers with status 200
StreamAnswer == [kind |-> "stream", status |-> 200, error |-> ""]
CompletionAnswer == [kind |-> "completion", status |-> 200, error |-> ""]

\* (variant: only the message list is looked at)
ValidateMessagesOnly(req) == Len(req.Messages) # 0

\* validateChatCompletionRequest returns nil
ValidateChatCompletionRequest(req) ==
  /\ Len(req.Messages) # 0
  /\ IsValidModel(req.Model)

\* setRequestDefaults
SetRequestDefaults(req) ==
  [req EXCEPT !.Model = IF @ = "" THEN DefaultModel ELSE @,
              !.Stream = IF @ = "nil" THEN "false" ELSE @]

\* validateImageSupport: the loops that set hasImages
HasImages(req) ==
  \E i \in 1..Len(req.Messages) :
    /\ req.Messages[i].Content.kind = "list"
    /\ \E j \in 1..Len(req.Messages[i].Content.parts) :
         req.Messages[i].Content.parts[j].type = "image_url"

\* validateImageSupport returns nil
ValidateImageSupport(req) == ~(HasImages(req) /\ ~SupportsImages(req.Model))

\* A request body has arrived at POST /v1/chat/completions
HandlerInit ==
  /\ request \in ChatCompletionRequests
  /\ hpc = "bind"
  /\ answer = NoAnswer
  /\ effects = <<>>

HandlerStep(next, ans, eff) ==
  /\ hpc' = next
  /\ answer' = ans
  /\ effects' = effects \o eff

\* c.ShouldBindJSON: the body is JSON of the right shape, or it is not
ShouldBindJSON ==
  /\ hpc = "bind"
  /\ \E ok \in BOOLEAN :
       IF ok THEN HandlerStep("validate", answer, <<>>)
       ELSE HandlerStep("done", ErrorAnswer(400, "Invalid request"), <<>>)
  /\ UNCHANGED request
  /\ UNCHANGED <<streamVars, authVars, adaptVars, completionVars, rateVars, imageVars,
                 chunkerVars>>

\* the call of validateChatCompletionRequest
ValidateRequest ==
  /\ hpc = "validate"
  /\ IF ValidateChatCompletionRequest(request)
     THEN HandlerStep("defaults", answer, <<>>)
     ELSE HandlerStep("done", ErrorAnswer(400, "Invalid request"), <<>>)
  /\ UNCHANGED request
  /\ UNCHANGED <<streamVars, authVars, adaptVars, completionVars, rateVars, imageVars,
                 chunkerVars>>

\* the call of setRequestDefaults
SetDefaults ==
  /\ hpc = "defaults"
  /\ request' = SetRequestDefaults(request)
  /\ HandlerStep("images", answer, <<>>)
  /\ UNCHANGED <<streamVars, authVars, adaptVars, completionVars, rateVars, imageVars,
                 chunkerVars>>

\* the call of validateImageSupport
CheckImageSupport ==
  /\ hpc = "images"
  /\ IF ValidateImageSupport(request)
     THEN HandlerStep("auth", answer, <<>>)
     ELSE HandlerStep("done", ErrorAnswer(400, "Model not supported"), <<>>)
  /\ UNCHANGED request
  /\ UNCHANGED <<streamVars, authVars, adaptVars, completionVars, rateVars, imageVars,
                 chunkerVars>>

\* authManager.TestAuthentication: InitializeAuth, then the call of
\* loadCodeAssist when InitializeAuth succeeded
TestAuthentication ==
  /\ hpc = "auth"
  /\ \E acquired \in BOOLEAN, called \in BOOLEAN :
       IF ~acquired
       THEN HandlerStep("done", ErrorAnswer(401, "Authentication failed"),
                        <<"acquire">>)
       ELSE IF ~called
       THEN HandlerStep("done", ErrorAnswer(401, "Authentication failed"),
                        <<"acquire", "upstream">>)
       ELSE HandlerStep("respond", answer, <<"acquire", "upstream">>)
  /\ UNCHANGED request
  /\ UNCHANGED <<streamVars, authVars, adaptVars, completionVars, rateVars, imageVars,
                 chunkerVars>>

\* handleStreamingResponse: headers and status 200 go out, StreamContent is
\* called
HandleStreamingResponse ==
  /\ hpc = "respond"
  /\ request.Stream = "true"
  /\ HandlerStep("done", StreamAnswer, <<"stream", "acquire">>)
  /\ UNCHANGED request
  /\ UNCHANGED <<streamVars, authVars, adaptVars, completionVars, rateVars, imageVars,
                 chunkerVars>>

\* handleNonStreamingResponse: GetCompletion is called and fails or returns
HandleNonStreamingResponse ==
  /\ hpc = "respond"
  /\ request.Stream # "true"
  /\ \E ok \in BOOLEAN :
       HandlerStep("done",
                   IF ok THEN CompletionAnswer
                   ELSE ErrorAnswer(500, "Completion failed"),
                   <<"acquire">>)
  /\ UNCHANGED request
  /\ UNCHANGED <<streamVars, authVars, adaptVars, completionVars, rateVars, imageVars,
                 chunkerVars>>

HandlerNext ==
  \/ ShouldBindJSON
  \/ ValidateRequest
  \/ SetDefaults
  \/ CheckImageSupport
  \/ TestAuthentication
  \/ HandleStreamingResponse
  \/ HandleNonStreamingResponse

\* ------------------------------------------------------------------------
\* Synthetic reasoning generator: Client.splitIntoChunks
\* ------------------------------------------------------------------------
MaxTextLen == 17               \* bytes of a reasoning text
ThinkingContentChunkSize == 15

\* A text is a sequence of bytes: letters and blanks
Letter == "a"
Blank == " "

\* The text of n bytes with blanks at the places of S
TextWith(n, S) == [i \in 1..n |-> IF i \in S THEN Blank ELSE Letter]

\* generateFakeThinking has a reasoning text to send: words with at most
\* two blanks among them
ChunkerInit ==
  /\ \E n \in 0..MaxTextLen : \E i \in 0..n, j \in 0..n :
       splitText = TextWith(n, {i, j})
  /\ chunkSize = ThinkingContentChunkSize
  /\ splitChunks = <<>>
  /\ splitIdx = 0
  /\ spc = "split"

\* splitIntoChunks: a text that fits is returned whole
SplitEnter ==
  /\ spc = "split"
  /\ IF Len(splitText) <= chunkSize
     THEN splitChunks' = <<splitText>> /\ spc' = "done"
     ELSE UNCHANGED splitChunks /\ spc' = "loop"
  /\ UNCHANGED <<splitText, chunkSize, splitIdx>>
  /\ UNCHANGED <<streamVars, authVars, adaptVars, completionVars, rateVars, imageVars,
                 handlerVars>>

\* splitIntoChunks: one iteration of "for i := 0; i < len(text); i += chunkSize"
SplitLoop ==
  /\ spc = "loop"
  /\ splitIdx < Len(splitText)
  /\ LET end == IF splitIdx + chunkSize > Len(splitText) THEN Len(splitText)
                ELSE splitIdx + chunkSize
     IN  splitChunks' = Append(splitChunks, SubSeq(splitText, splitIdx + 1, end))
  /\ splitIdx' = splitIdx + chunkSize
  /\ UNCHANGED <<splitText, chunkSize, spc>>
  /\ UNCHANGED <<streamVars, authVars, adaptVars, completionVars, rateVars, imageVars,
                 handlerVars>>

\* splitIntoChunks: the loop ends, the chunks are returned
SplitReturn ==
  /\ spc = "loop"
  /\ splitIdx >= Len(splitText)
  /\ spc' = "done"
  /\ UNCHANGED <<splitText, chunkSize, splitChunks, splitIdx>>
  /\ UNCHANGED <<streamVars, authVars, adaptVars, completionVars, rateVars, imageVars,
                 handlerVars>>

ChunkerNext ==
  \/ SplitEnter
  \/ SplitLoop
  \/ SplitReturn

\* ------------------------------------------------------------------------
\* The two splitters: Client.splitIntoChunks and TextChunker.Split
\* ------------------------------------------------------------------------
MaxChunkSize == 3
LookAhead == 10                \* searchSpace := remaining[:chunkEnd+10]

\* A splitter is called with a text and a chunk size of 1 or more
SplittersInit ==
  /\ \E n \in 0..MaxTextLen : \E i \in 0..n, j \in 0..n :
       splitText = TextWith(n, {i, j})
  /\ chunkSize \in 1..MaxChunkSize
  /\ splitChunks = <<>>
  /\ splitIdx = 0
  /\ spc \in {"split", "tc_split"}

\* TextChunker.Split: what is left of the text
Remaining == SubSeq(splitText, splitIdx + 1, Len(splitText))

\* TextChunker.Split: remaining[:chunkEnd+10]; the slice expression panics
\* when the text left is shorter
SearchSpace(rem, size) ==
  IF size + LookAhead > Len(rem)
  THEN [panic |-> TRUE, str |-> <<>>]
  ELSE [panic |-> FALSE, str |-> SubSeq(rem, 1, size + LookAhead)]

\* TextChunker.Split: the end of the next chunk.  Of the break characters
\* the texts hold the blank only; idx is LastIndex less one
ChunkEnd(searchSpace, size) ==
  IF LastIndex(searchSpace, Blank) - 1 > (size * 7) \div 10
  THEN LastIndex(searchSpace, Blank)
  ELSE size

\* TextChunker.Split: a text that fits is returned whole
TextChunkerEnter ==
  /\ spc = "tc_split"
  /\ IF Len(splitText) <= chunkSize
     THEN splitChunks' = <<splitText>> /\ spc' = "done"
     ELSE UNCHANGED splitChunks /\ spc' = "tc_loop"
  /\ UNCHANGED <<splitText, chunkSize, splitIdx>>
  /\ UNCHANGED <<streamVars, authVars, adaptVars, completionVars, rateVars, imageVars,
                 handlerVars>>

\* TextChunker.Split: one iteration of "for len(remaining) > 0", or its end
TextChunkerLoop ==
  /\ spc = "tc_loop"
  /\ IF Len(Remaining) = 0
     THEN spc' = "done" /\ UNCHANGED <<splitChunks, splitIdx>>
     ELSE IF Len(Remaining) <= chunkSize
     THEN /\ splitChunks' = Append(splitChunks, Remaining)
          /\ spc' = "done"
          /\ UNCHANGED splitIdx
     ELSE LET ss == SearchSpace(Remaining, chunkSize)
              end == ChunkEnd(ss.str, chunkSize)
          IN  IF ss.panic
              THEN spc' = "panic" /\ UNCHANGED <<splitChunks, splitIdx>>
              ELSE /\ splitChunks' = Append(splitChunks, SubSeq(Remaining, 1, end))
                   /\ splitIdx' = splitIdx + end
                   /\ UNCHANGED spc
  /\ UNCHANGED <<splitText, chunkSize>>
  /\ UNCHANGED <<streamVars, authVars, adaptVars, completionVars, rateVars, imageVars,
                 handlerVars>>

SplittersNext ==
  \/ ChunkerNext
  \/ TextChunkerEnter
  \/ TextChunkerLoop

\* ------------------------------------------------------------------------
\* Rate limiter: middleware.BasicRateLimitMiddleware
\* ------------------------------------------------------------------------
RateLimitRequests == 2         \* requests: admissions per window
RateLimitWindow == 1           \* window, in ticks of the clock
MaxClock == 2

ClientIPs == {"ip1", "ip2"}
RateLimitInfo(n, reset) == [exists |-> TRUE, Requests |-> n, ResetTime |-> reset]

\* "Clean up old entries": every entry whose ResetTime lies before t goes
CleanUp(cl, t) ==
  [ip \in ClientIPs |->
     IF cl[ip] # NoInfo /\ t > cl[ip].ResetTime THEN NoInfo ELSE cl[ip]]

\* What the middleware decides for a request of ip that read the time t,
\* after the clean-up: the new map and whether c.Next() is called
Decide(cl, ip, t) ==
  LET info == cl[ip]
  IN  IF info = NoInfo
      THEN [clients |-> [cl EXCEPT ![ip] = RateLimitInfo(1, t + RateLimitWindow)],
            next |-> TRUE]
      ELSE IF t > info.ResetTime
      THEN [clients |-> [cl EXCEPT ![ip] = RateLimitInfo(1, t + RateLimitWindow)],
            next |-> TRUE]
      ELSE IF info.Requests >= RateLimitRequests
      THEN [clients |-> cl, next |-> FALSE]
      ELSE [clients |-> [cl EXCEPT ![ip].Requests = @ + 1], next |-> TRUE]

RateInit ==
  /\ clients = [ip \in ClientIPs |-> NoInfo]
  /\ rateMu = NoHolder
  /\ clock = 0
  /\ reqs = [r \in 1..NumRequests |-> [ip |-> "", now |-> 0, rpc |-> "new"]]
  /\ admitted = <<>>

\* A request enters the middleware: c.ClientIP() and time.Now(), before
\* mu.Lock()
RateArrive(r) ==
  /\ reqs[r].rpc = "new"
  /\ \E ip \in ClientIPs :
       reqs' = [reqs EXCEPT ![r] = [ip |-> ip, now |-> clock, rpc |-> "lock"]]
  /\ UNCHANGED <<clients, rateMu, clock, admitted>>
  /\ UNCHANGED <<streamVars, authVars, adaptVars, completionVars, imageVars,
                 handlerVars, chunkerVars>>

\* mu.Lock(), the clean-up and the decision.  A request that is let through
\* runs c.Next() with the mutex held (the Unlock is deferred); a request
\* over the limit is answered 429, aborted, and the mutex is released.
RateDecide(r) ==
  /\ reqs[r].rpc = "lock"
  /\ rateMu = NoHolder
  /\ LET d == Decide(CleanUp(clients, reqs[r].now), reqs[r].ip, reqs[r].now)
     IN  /\ clients' = d.clients
         /\ IF d.next
            THEN /\ reqs' = [reqs EXCEPT ![r].rpc = "handler"]
                 /\ rateMu' = r
                 /\ admitted' = Append(admitted,
                                       [req |-> r, ip |-> reqs[r].ip,
                                        at |-> clock, now |-> reqs[r].now])
            ELSE /\ reqs' = [reqs EXCEPT ![r].rpc = "rejected"]
                 /\ UNCHANGED <<rateMu, admitted>>
  /\ UNCHANGED clock
  /\ UNCHANGED <<streamVars, authVars, adaptVars, completionVars, imageVars,
                 handlerVars, chunkerVars>>

\* c.Next() returns: the deferred mu.Unlock()
RateReturn(r) ==
  /\ reqs[r].rpc = "handler"
  /\ rateMu = r
  /\ reqs' = [reqs EXCEPT ![r].rpc = "served"]
  /\ rateMu' = NoHolder
  /\ UNCHANGED <<clients, clock, admitted>>
  /\ UNCHANGED <<streamVars, authVars, adaptVars, completionVars, imageVars,
                 handlerVars, chunkerVars>>

\* time passes
RateTick ==
  /\ clock < MaxClock
  /\ clock' = clock + 1
  /\ UNCHANGED <<clients, rateMu, reqs, admitted>>
  /\ UNCHANGED <<streamVars, authVars, adaptVars, completionVars, imageVars,
                 handlerVars, chunkerVars>>

RateNext ==
  \/ \E r \in 1..NumRequests :
       \/ RateArrive(r)
       \/ RateDecide(r)
       \/ RateReturn(r)
  \/ RateTick

\* ------------------------------------------------------------------------
\* Specifications
\* ------------------------------------------------------------------------
\* One streaming request; the AuthManager is not used
Init == StreamInit /\ AuthUnused /\ AdaptUnused /\ CompletionInit /\ AuxUnused

\* One buffered request
InitBuffered ==
  BufferedInit /\ AuthUnused /\ AdaptUnused /\ CompletionInit /\ AuxUnused

SpecBuffered == InitBuffered /\ [][BufferedNext]_vars

\* The message conversion of one request
InitAdapt ==
  AdaptInit /\ StreamUnused /\ AuthUnused /\ CompletionInit /\ AuxUnused

SpecAdapt == InitAdapt /\ [][AdaptNext]_vars

Spec == Init /\ [][StreamNext]_vars

\* One goroutine runs MaxOps operations of the AuthManager, observed
InitAuth ==
  /\ AuthInit([p \in Procs |-> IF p = "g1" THEN MaxOps ELSE 0], TRUE)
  /\ StreamUnused
  /\ AdaptUnused
  /\ CompletionInit
  /\ AuxUnused

SpecAuth == InitAuth /\ [][AuthNext]_vars

\* Two goroutines run MaxConcOps operations of the AuthManager each
InitConc ==
  /\ AuthInit([p \in Procs |-> MaxConcOps], FALSE)
  /\ StreamUnused
  /\ AdaptUnused
  /\ CompletionInit
  /\ AuxUnused

SpecConc == InitConc /\ [][AuthNext]_vars

\* Two goroutines that also call the Code Assist endpoints through
\* AuthManager.CallEndpoint
CallsNext ==
  \/ AuthNext
  \/ \E p \in Procs :
       \/ StartCallEndpoint(p)
       \/ CallEndpointWithRetry(p)
       \/ ResetAccessToken(p)

SpecCalls == InitConc /\ [][CallsNext]_vars

\* A streaming request with a slow client: the upstream has sent ChanCap
\* frames of one text part each, the producer has sent their chunks and the
\* handler has not yet received any of them, so that chunkChan is full.  The
\* upstream has one more event to send.
BacklogLines ==
  [i \in 1..(2 * ChanCap) |->
     IF i % 2 = 1
     THEN DataLine([kind |-> "json", parts |-> <<Part(FALSE, "a")>>,
                    usage |-> NoUsage])
     ELSE BlankLine]

BacklogChunks == [i \in 1..ChanCap |-> Chunk("text", "a")]

BacklogInit ==
  /\ options = [EnableFakeThinking |-> FALSE, StreamThinkingAsContent |-> FALSE]
  /\ received = BacklogLines
  /\ handed = [i \in 1..ChanCap |-> <<BacklogLines[2 * i - 1].payload>>]
  /\ lines = <<>>
  /\ nEvents = MaxEvents - 1
  /\ buffer = <<>>
  /\ hasStartedThinking = FALSE
  /\ hasClosedThinking = FALSE
  /\ ppc = "scan"
  /\ fakeIdx = 0
  /\ pending = <<>>
  /\ chunkChan = BacklogChunks
  /\ chanClosed = FALSE
  /\ emitted = BacklogChunks
  /\ cpc = "recv"
  /\ hasStarted = FALSE
  /\ out = <<>>
  /\ cancelled = FALSE

\* One streaming request, from its start or from the full channel
InitBacklog ==
  /\ StreamInit \/ BacklogInit
  /\ AuthUnused
  /\ AdaptUnused
  /\ CompletionInit
  /\ AuxUnused

SpecBacklog == InitBacklog /\ [][StreamNext]_vars

\* The steps of the producer goroutine of StreamContent
ProducerNext ==
  \/ FakeThinkingStart
  \/ FakeThinkingChunk
  \/ FakeThinkingError
  \/ PerformStreamRequest
  \/ ScanLine
  \/ ScanEnd
  \/ ScanCancelled
  \/ SendChunk
  \/ StreamError
  \/ CloseChan

\* ------------------------------------------------------------------------
\* Reading the streams
\* ------------------------------------------------------------------------
IsOpenMarker(c) == c.Type = "thinking_content" /\ c.Data = ThinkingOpenTag
IsCloseMarker(c) == c.Type = "thinking_content" /\ c.Data = ThinkingCloseTag

\* Error notices of StreamContent's goroutine, as opposed to text of parts
IsErrorNotice(c) == c \in {ErrorChunk, FakeErrorChunk}
IsFinalText(c) == c.Type = "text" /\ ~IsErrorNotice(c)

\* A thinking block is open after the chunks of seq: the last marker in seq
\* is an open marker
RECURSIVE OpenAfter(_)
OpenAfter(seq) ==
  IF seq = <<>> THEN FALSE
  ELSE LET last == seq[Len(seq)]
       IN  IF IsOpenMarker(last) THEN TRUE
           ELSE IF IsCloseMarker(last) THEN FALSE
           ELSE OpenAfter(SubSeq(seq, 1, Len(seq) - 1))

\* The same for the frames written to the client
RECURSIVE OpenAfterFrames(_)
OpenAfterFrames(seq) ==
  IF seq = <<>> THEN FALSE
  ELSE LET last == seq[Len(seq)]
       IN  IF last.frame = "delta" /\ last.content = ThinkingOpenTag THEN TRUE
           ELSE IF last.frame = "delta" /\ last.content = ThinkingCloseTag THEN FALSE
           ELSE OpenAfterFrames(SubSeq(seq, 1, Len(seq) - 1))

\* The upstream body as scanned: the parts of its well-formed payloads, in
\* order, and whether a payload carries usage metadata
RECURSIVE PartsOf(_)
PartsOf(ls) ==
  IF ls = <<>> THEN <<>>
  ELSE (IF Head(ls).line = "data" /\ Head(ls).payload.kind = "json"
        THEN Head(ls).payload.parts ELSE <<>>) \o PartsOf(Tail(ls))

CarriesUsage(ls) ==
  \E i \in 1..Len(ls) :
    /\ ls[i].line = "data"
    /\ ls[i].payload.kind = "json"
    /\ ls[i].payload.usage # NoUsage

\* Every data line carries a frame or the sentinel and is followed by its
\* blank line
RegularBody(ls) ==
  \A i \in 1..Len(ls) :
    ls[i].line = "data" =>
      /\ ls[i].payload.kind \in {"json", "nil", "done"}
      /\ i < Len(ls)
      /\ ls[i + 1] = BlankLine

RECURSIVE FinalTexts(_)
FinalTexts(parts) ==
  IF parts = <<>> THEN <<>>
  ELSE (IF ~Head(parts).Thought /\ Head(parts).Text # ""
        THEN <<Chunk("text", Head(parts).Text)>> ELSE <<>>)
       \o FinalTexts(Tail(parts))

\* The stream was read to its end and no error was reported
StreamEndedNormally ==
  /\ ppc = "done"
  /\ \A i \in 1..Len(emitted) : ~IsErrorNotice(emitted[i])

\* The handler has written the terminal frame
DoneWritten == out # <<>> /\ out[Len(out)] = CreateFinalChunk

\* ------------------------------------------------------------------------
\* Claims on the stream pipeline (specification Spec)
\* ------------------------------------------------------------------------
\* C1: in thinking-as-content mode the chunks emitted for one request never
\* contain two thinking-open markers without a close marker between them,
\* with the synthetic reasoning generator enabled or disabled.
\* Fails: generateFakeThinking emits an open marker that parseSSEStream
\* does not know of (hasStartedThinking starts FALSE), so the first thought
\* part of the upstream emits a second one.
C1_NoDoubleOpen ==
  options.StreamThinkingAsContent =>
    \A i \in 1..Len(emitted) :
      IsOpenMarker(emitted[i]) => ~OpenAfter(SubSeq(emitted, 1, i - 1))

\* C2: in thinking-as-content mode, when the upstream stream ends while a
\* thinking block is open, a close marker is written to the client before
\* the terminal [DONE] frame.
\* Fails: neither parseSSEStream nor WriteFinalChunk closes the block.
C2_ClosedBeforeDone ==
  (options.StreamThinkingAsContent /\ StreamEndedNormally /\ DoneWritten) =>
    ~OpenAfterFrames(out)

\* C3: in thinking-as-content mode no final-text event is emitted while a
\* thinking block is open (the open marker coming from the classifier or
\* from the synthetic reasoning generator).
\* Fails: the block opened by generateFakeThinking is never closed.
C3_NoTextInsideThinking ==
  options.StreamThinkingAsContent =>
    \A i \in 1..Len(emitted) :
      IsFinalText(emitted[i]) => ~OpenAfter(SubSeq(emitted, 1, i - 1))

\* C4: for an upstream stream whose frames carry N non-empty final-text
\* parts and no thought part, the pipeline emits exactly the N final-text
\* events in the order of the parts, then exactly one usage event when the
\* stream carries usage metadata, and no other event; the terminal frame
\* follows.
\* Fails: processSSEData emits a usage event for every frame that carries
\* usage metadata, in the place of that frame.
C4_RoundTrip ==
  LET parts == PartsOf(received)
      texts == FinalTexts(parts)
      n == Len(texts)
  IN  ( /\ ~options.EnableFakeThinking
        /\ StreamEndedNormally
        /\ RegularBody(received)
        /\ \A i \in 1..Len(parts) : ~parts[i].Thought ) =>
      /\ SubSeq(emitted, 1, n) = texts
      /\ IF CarriesUsage(received)
         THEN Len(emitted) = n + 1 /\ emitted[n + 1].Type = "usage"
         ELSE Len(emitted) = n

\* ------------------------------------------------------------------------
\* Claims on the credential broker, one goroutine (specification SpecAuth)
\* ------------------------------------------------------------------------
\* The second call of the streaming endpoint came after ClearTokenCache and
\* a successful InitializeAuth, in this order, and carries that
\* InitializeAuth's token
RetryFollowedReauth(l) ==
  /\ Len(l.histAtRetry) = 2
  /\ l.histAtRetry[1].call = "invalidate"
  /\ l.histAtRetry[2].call = "acquire"
  /\ l.histAtRetry[2].ok
  /\ l.calls[2].token = l.histAtRetry[2].token

\* C5 as stated: for one streaming request the streaming endpoint is called
\* at most twice; a 401 answer to the first call is followed by invalidating
\* the cache, a new acquire() and exactly one more call carrying the token
\* acquire() supplied; a 401 answer to the second call is returned as an
\* error and no third call is made.
\* Fails when the new acquire() fails: its error is returned and the
\* endpoint is not called again.
C5_Stated ==
  \A p \in Procs :
    LET l == loc[p]
    IN  l.op = "stream" =>
          /\ Len(l.calls) <= 2
          /\ (l.result # "" /\ Len(l.calls) >= 1
                /\ l.calls[1].status = StatusUnauthorized) =>
               (Len(l.calls) = 2 /\ RetryFollowedReauth(l))
          /\ (l.result # "" /\ Len(l.calls) = 2
                /\ l.calls[2].status = StatusUnauthorized) =>
               l.result = "error"

\* C5 amended: the streaming endpoint is called at most twice; a 401 answer
\* to the first call is followed by invalidating the cache and a new
\* acquire(); if that acquire() succeeds exactly one more call follows,
\* carrying its token, and if it fails its error is returned without a
\* second call; a 401 answer to the second call is returned as an error and
\* no third call is made.
C5_OneRetry ==
  \A p \in Procs :
    LET l == loc[p]
    IN  l.op = "stream" =>
          /\ Len(l.calls) <= 2
          /\ Len(l.calls) = 2 =>
               (l.calls[1].status = StatusUnauthorized /\ RetryFollowedReauth(l))
          /\ (l.result # "" /\ Len(l.calls) >= 1
                /\ l.calls[1].status = StatusUnauthorized) =>
               /\ l.reauth \in {"ok", "failed"}
               /\ l.reauth = "ok" => Len(l.calls) = 2
               /\ l.reauth = "failed" => (Len(l.calls) = 1 /\ l.result = "error")
          /\ (l.result # "" /\ Len(l.calls) = 2
                /\ l.calls[2].status = StatusUnauthorized) =>
               l.result = "error"

\* A streaming request whose two calls were both answered 401 has ended
\* with an error
C5_Witness ==
  \E p \in Procs :
    /\ loc[p].op = "stream"
    /\ loc[p].result = "error"
    /\ Len(loc[p].calls) = 2
    /\ loc[p].calls[1].status = StatusUnauthorized
    /\ loc[p].calls[2].status = StatusUnauthorized
    /\ RetryFollowedReauth(loc[p])

\* C6: starting from any cache state and any embedded bundle, invalidate()
\* followed by acquire() performs exactly one refresh exchange.
\* Fails: with an embedded token valid beyond the buffer window
\* InitializeAuth takes that token again and posts nothing.
C6_ForcedRefresh ==
  LET H == hist.calls
  IN  ( /\ config.kind = "bundle"
        /\ Len(H) = 2
        /\ H[1].call = "invalidate"
        /\ H[2].call = "acquire" ) =>
      H[2].refresh1 = H[2].refresh0 + 1

\* C7: two sequential acquire() calls, the first leaving a cached token that
\* is valid beyond the buffer window at the time of the second, yield the
\* identical token, and the second performs no refresh exchange.
C7_CredentialReuse ==
  LET H == hist.calls
  IN  ( /\ Len(H) = 2
        /\ H[1].call = "acquire" /\ H[1].ok
        /\ H[2].call = "acquire"
        /\ H[1].cache1 # NoToken
        /\ BeyondBuffer(H[1].cache1.ExpiryDate, H[2].now1) ) =>
      /\ H[2].ok
      /\ H[2].token = H[1].token
      /\ H[2].refresh1 = H[2].refresh0

\* A token obtained by a refresh exchange was used again by the next
\* acquire()
C7_Witness ==
  LET H == hist.calls
  IN  /\ Len(H) = 2
      /\ H[1].call = "acquire" /\ H[1].ok /\ H[1].src = "refresh"
      /\ H[2].call = "acquire" /\ H[2].ok /\ H[2].src = "cache"
      /\ BeyondBuffer(H[1].cache1.ExpiryDate, H[2].now1)
      /\ H[2].token = H[1].token

\* C8: every token a successful acquire() makes current has, at that moment,
\* an expiry later than now plus the buffer window, whether it came from the
\* cache, the embedded bundle or a refresh exchange (for any expires_in).
\* Fails: refreshAndCacheToken takes the token whatever expires_in is.
C8_NeverInsideBuffer ==
  \A i \in 1..Len(hist.calls) :
    LET r == hist.calls[i]
    IN  (r.call = "acquire" /\ r.ok /\ r.token # "") =>
          BeyondBuffer(r.expiry, r.setAt)

\* C9: acquire() tries cache, embedded bundle, refresh exchange in this
\* order: on a cache miss with an embedded token valid beyond the window it
\* caches and returns the embedded token without a refresh exchange; the
\* refresh exchange is invoked only when neither the cached nor the embedded
\* token is valid beyond the window, and its token is cached with expiry
\* now + expires_in.
C9_SourceOrder ==
  \A i \in 1..Len(hist.calls) :
    LET r == hist.calls[i]
        missAtStart == r.cache0 = NoToken
                         \/ ~BeyondBuffer(r.cache0.ExpiryDate, r.now0)
        missAtEnd == r.cache0 = NoToken
                       \/ ~BeyondBuffer(r.cache0.ExpiryDate, r.now1)
    IN  r.call = "acquire" =>
          /\ ( /\ config.kind = "bundle"
               /\ missAtStart
               /\ BeyondBuffer(ExpiryTime(config), r.now1) ) =>
             /\ r.ok /\ r.src = "embedded"
             /\ r.token = config.access_token
             /\ r.cache1 # NoToken
             /\ r.cache1.AccessToken = config.access_token
             /\ r.cache1.ExpiryDate = ExpiryTime(config)
             /\ r.refresh1 = r.refresh0
          /\ r.refresh1 # r.refresh0 =>
             /\ r.src = "refresh"
             /\ r.refresh1 = r.refresh0 + 1
             /\ missAtEnd
             /\ config.kind = "bundle"
             /\ ~BeyondBuffer(ExpiryTime(config), r.now1)
          /\ (r.ok /\ r.src = "refresh") =>
             /\ r.cache1 # NoToken
             /\ r.cache1.AccessToken = r.token
             /\ r.cache1.ExpiryDate = r.setAt + r.expiresIn

\* An acquire() that took the embedded token was followed by one that had
\* to refresh
C9_Witness ==
  LET H == hist.calls
  IN  /\ Len(H) = 2
      /\ H[1].call = "acquire" /\ H[1].ok /\ H[1].src = "embedded"
      /\ H[1].refresh1 = H[1].refresh0
      /\ H[2].call = "acquire" /\ H[2].ok /\ H[2].src = "refresh"
      /\ H[2].cache0 # NoToken
      /\ H[2].cache1.ExpiryDate = H[2].setAt + H[2].expiresIn

\* ------------------------------------------------------------------------
\* Claims on the credential cache, two goroutines (specification SpecConc)
\* ------------------------------------------------------------------------
\* Goroutine p is at a write of the cache map
Mutating(p) == pc[p] \in {"gc_delete", "ct_write", "clr_delete"}

\* C10: every mutation of the credential cache (insert, replace, removal on
\* invalidate, removal of an expired entry found on read) is executed while
\* the cache lock is held exclusively: no two goroutines mutate the cache at
\* the same time and none mutates it while another reads it.
\* Fails: getCachedToken deletes the expired entry holding only the read
\* lock.
C10_ExclusiveMutation ==
  \A p \in Procs :
    Mutating(p) =>
      /\ cacheMu.writer = p
      /\ cacheMu.readers = {}
      /\ \A q \in Procs \ {p} : ~Mutating(q)

\* ------------------------------------------------------------------------
\* Claims on cancellation and failures (specification Spec)
\* ------------------------------------------------------------------------
\* C11: after the request's cancellation signal has fired in the middle of a
\* stream, the consumer writes no further chunk (content, reasoning, usage,
\* error notice or [DONE]) to the client, whatever is still queued or is
\* produced afterwards: no step taken while the handler is in its loop with
\* the context done adds a frame to the output.
\* Fails: the range loop ends on the closed channel and WriteFinalChunk is
\* called without a look at ctx.Done().
C11_NoWriteAfterCancel ==
  [][(cancelled /\ cpc = "recv") => out' = out]_vars

\* C12: after cancellation the producer goroutine of a request eventually
\* stops reading the upstream, closes the event queue and terminates, in
\* every execution, including when the queue is full and the consumer has
\* stopped receiving.  A producer that terminates in every execution can
\* take a step as long as it has not terminated: once the handler has
\* returned nothing else can change what the producer waits for.
\* Fails: the sends on chunkChan do not look at ctx.Done(), so a producer
\* that finds the channel full after the handler has returned waits for
\* ever and never runs its deferred close(chunkChan).
C12_ProducerNeverStuck ==
  (cancelled /\ cpc = "returned" /\ ppc \notin {"none", "done"}) =>
    ENABLED ProducerNext

\* The frame the consumer writes for the error notice of a failed call
ErrorFrame == Transform(ErrorChunk)

\* Number of places of seq that hold x
CountOf(seq, x) == Cardinality({i \in 1..Len(seq) : seq[i] = x})

\* The lines ls, scanned with buf accumulated before them, contain a blank
\* line that hands processSSEData a buffer it cannot decode
RECURSIVE FlushFails(_, _)
FlushFails(ls, buf) ==
  IF ls = <<>> THEN FALSE
  ELSE LET l == Head(ls)
       IN  IF l = BlankLine
           THEN IF buf = <<>> THEN FlushFails(Tail(ls), buf)
                ELSE IF buf = <<DoneSentinel>> THEN FlushFails(Tail(ls), <<>>)
                ELSE IF Len(buf) > 1 \/ buf[1].kind = "malformed" THEN TRUE
                ELSE FlushFails(Tail(ls), <<>>)
           ELSE FlushFails(Tail(ls),
                           IF l.line = "data" THEN Append(buf, l.payload) ELSE buf)

\* The upstream call of this request has failed: StreamContent returned an
\* error, or its goroutine has reported one
CallFailed ==
  \/ ppc = "none" /\ cpc = "returned"
  \/ \E i \in 1..Len(emitted) : emitted[i] = ErrorChunk

\* C13: every upstream-call failure that is not a cancellation (transport
\* error, non-200 status, repeated 401, malformed SSE JSON) ends the client
\* stream with exactly one error-notice content chunk followed by the
\* [DONE] sentinel; nothing is written after the sentinel and the stream is
\* not left without one.  In states: the sentinel is the last frame and is
\* written once; a malformed payload that was parsed has been reported; a
\* stream that failed and has its sentinel ends with the one error notice
\* and the sentinel.  In steps: a failed call is left only by enqueuing the
\* error notice; a handler that returns from the end of the queue, or after
\* StreamContent failed, has written the sentinel.
C13_FailureEndsStream ==
  /\ [](/\ \A i \in 1..Len(out) : out[i] = CreateFinalChunk => i = Len(out)
        /\ (ppc \in {"close", "done"} /\ FlushFails(received, <<>>)) =>
             \E i \in 1..Len(emitted) : emitted[i] = ErrorChunk
        /\ (DoneWritten /\ CallFailed) =>
             /\ Len(out) >= 2
             /\ out[Len(out) - 1] = ErrorFrame
             /\ CountOf(out, ErrorFrame) = 1)
  /\ [][/\ (ppc = "fail" /\ ppc' # "fail") =>
             (ppc' = "close" /\ emitted' = Append(emitted, ErrorChunk))
        /\ (cpc = "recv" /\ cpc' = "returned" /\ chunkChan = <<>>) =>
             out' = Append(out, CreateFinalChunk)
        /\ (cpc = "start" /\ cpc' = "returned") =>
             out' = <<CreateRoleChunk, ErrorFrame, CreateFinalChunk>>]_vars

\* A stream delivered content, then met a malformed payload, and the client
\* got the content, the error notice and the sentinel
C13_Witness ==
  /\ ppc = "done"
  /\ cpc = "returned"
  /\ FlushFails(received, <<>>)
  /\ Len(out) >= 4
  /\ out[Len(out)] = CreateFinalChunk
  /\ out[Len(out) - 1] = ErrorFrame
  /\ out[Len(out) - 2] = Transform(Chunk("text", "a"))

\* The chunks generateFakeThinking sends when it runs to its end
FakeChunks ==
  IF ~options.EnableFakeThinking THEN <<>>
  ELSE (IF options.StreamThinkingAsContent
        THEN <<Chunk("thinking_content", ThinkingOpenTag)>> ELSE <<>>)
       \o [i \in 1..NumFakeChunks |->
             IF options.StreamThinkingAsContent
             THEN Chunk("thinking_content", ReasoningChunk(i))
             ELSE Chunk("reasoning", [Reasoning |-> ReasoningChunk(i)])]

\* The chunks parseSSEStream sends for the lines ls, scanned with buf
\* accumulated before them and the two flags as given, up to the first
\* payload processSSEData rejects
RECURSIVE EventsBefore(_, _, _, _, _)
EventsBefore(ls, buf, asContent, started, closed) ==
  IF ls = <<>> THEN <<>>
  ELSE LET l == Head(ls)
       IN  IF l = BlankLine
           THEN IF buf = <<>>
                THEN EventsBefore(Tail(ls), buf, asContent, started, closed)
                ELSE LET r == ProcessSSEData(buf, asContent, started, closed)
                     IN  IF r.err THEN <<>>
                         ELSE r.chunks \o EventsBefore(Tail(ls), <<>>, asContent,
                                                       r.started, r.closed)
           ELSE EventsBefore(Tail(ls),
                             IF l.line = "data" THEN Append(buf, l.payload) ELSE buf,
                             asContent, started, closed)

\* C14: when the k-th payload of the upstream stream is malformed JSON, every
\* event derived from payloads 1..k-1 has been enqueued, in order, before the
\* error is raised, and no event derived from payload k or a later one is
\* ever emitted: at the moment the error is raised the emitted chunks are
\* the generator's chunks followed by the events of the payloads before k,
\* and from then on only the error notice is added.
C14_FailFast ==
  (ppc \in {"fail", "close", "done"} /\ FlushFails(received, <<>>)) =>
    /\ pending = <<>>
    /\ emitted = FakeChunks
                 \o EventsBefore(received, <<>>, options.StreamThinkingAsContent,
                                 FALSE, FALSE)
                 \o (IF ppc = "fail" THEN <<>> ELSE <<ErrorChunk>>)

\* The second payload is malformed and the first one gave two events or more
C14_Witness ==
  /\ ppc = "fail"
  /\ FlushFails(received, <<>>)
  /\ Len(EventsBefore(received, <<>>, options.StreamThinkingAsContent,
                      FALSE, FALSE)) >= 2
  /\ Len(emitted) >= 2

\* ------------------------------------------------------------------------
\* Claims on the frames written to the client (specification Spec)
\* ------------------------------------------------------------------------
\* A frame that carries token counts and finish_reason "stop"
IsUsageFrame(f) ==
  f.frame = "delta" /\ f.finish_reason = "stop" /\ f.usage # NoUsage

\* C15: for every upstream stream, one in which several frames carry usage
\* metadata included, the client response has at most one chunk carrying
\* token counts and finish_reason "stop", and that chunk is the last one:
\* only the [DONE] sentinel is written after it.
\* Fails: processSSEData sends a usage chunk for every frame that carries
\* usage metadata, at the place of that frame.
C15_OneFinalUsage ==
  \A i \in 1..Len(out) :
    IsUsageFrame(out[i]) =>
      \A j \in (i + 1)..Len(out) : out[j] = CreateFinalChunk

\* The places of seq that hold a content or reasoning delta
DeltaPlaces(seq) ==
  {i \in 1..Len(seq) :
     /\ seq[i].frame = "delta"
     /\ seq[i].content # "" \/ seq[i].reasoning # ""}

\* C16: the role-announcement chunk is written exactly once, immediately
\* before the first final-text or reasoning chunk written to the client,
\* whichever comes first; no content or reasoning delta precedes it.
\* Fails: WriteChunk writes the role chunk only before the first chunk of
\* type text, so reasoning and thinking chunks go out without it.
C16_RoleBeforeFirstDelta ==
  DeltaPlaces(out) # {} =>
    LET first == CHOOSE i \in DeltaPlaces(out) :
                   \A j \in DeltaPlaces(out) : i <= j
    IN  /\ first > 1
        /\ out[first - 1] = CreateRoleChunk
        /\ CountOf(out, CreateRoleChunk) = 1

\* ------------------------------------------------------------------------
\* Claims on the buffered completion (specification SpecBuffered)
\* ------------------------------------------------------------------------
\* The texts of the text chunks of seq, joined in order
RECURSIVE ConcatTexts(_)
ConcatTexts(seq) ==
  IF seq = <<>> THEN ""
  ELSE (IF Head(seq).Type = "text" THEN Head(seq).Data ELSE "")
       \o ConcatTexts(Tail(seq))

UsagePlaces(seq) == {i \in 1..Len(seq) : seq[i].Type = "usage"}

\* C17: a non-streaming request runs the producer pipeline of a streaming
\* one to completion and returns content equal to the in-order concatenation
\* of the texts of all final-text events, and usage equal to the last usage
\* event with total = prompt + completion tokens (parts "a" and "b" with
\* usage (3, 2) give "ab" and total 5).
C17_BufferedResult ==
  (cpc = "returned" /\ response # ErrorResponse /\ response # NoResponse) =>
    /\ ppc = "done"
    /\ chunkChan = <<>>
    /\ response.content = ConcatTexts(emitted)
    /\ IF UsagePlaces(emitted) = {}
       THEN response.usage = NoUsage
       ELSE LET last == CHOOSE i \in UsagePlaces(emitted) :
                          \A j \in UsagePlaces(emitted) : j <= i
                u == emitted[last].Data
            IN  /\ response.usage.PromptTokens = u.InputTokens
                /\ response.usage.CompletionTokens = u.OutputTokens
                /\ response.usage.TotalTokens = u.InputTokens + u.OutputTokens

\* Two final-text parts and usage (3, 2), among thinking chunks that are
\* left out: the response has both texts in order and total 5
C17_Witness ==
  /\ cpc = "returned"
  /\ response # ErrorResponse /\ response # NoResponse
  /\ response.content = "ab"
  /\ response.usage # NoUsage
  /\ response.usage.TotalTokens = 5
  /\ \E i \in 1..Len(emitted) : emitted[i].Type = "thinking_content"

\* ------------------------------------------------------------------------
\* Claims on the message adapter (specification SpecAdapt)
\* ------------------------------------------------------------------------
IsSystem(m) == m.Role = "system"
IsNotSystem(m) == m.Role # "system"

\* The text of a message: its string, or the text sub-parts of its list
\* joined with single spaces
MessageText(m) ==
  IF m.Content.kind = "string" THEN m.Content.text
  ELSE IF m.Content.kind = "list" THEN Join(TextParts(m.Content.parts), " ")
  ELSE ""

\* What the upstream contents hold besides the entries of the non-system
\* messages
ExtraEntries == Len(contents) - Len(SelectSeq(messages, IsNotSystem))

\* C18 as stated: for every valid message list with exactly one system
\* message, the upstream system text equals that message's text and appears
\* exactly once in the upstream contents, as the first entry, before all
\* other turns.
\* Fails: a system message with empty text gives no entry at all.
C18_Stated ==
  (apc = "done" /\ Len(SelectSeq(messages, IsSystem)) = 1) =>
    LET m == SelectSeq(messages, IsSystem)[1]
    IN  /\ systemPrompt = MessageText(m)
        /\ ExtraEntries = 1
        /\ contents[1] = SystemContent(MessageText(m))

\* C18 (amended): for every valid message list with exactly one system
\* message whose text is not empty, the upstream system text equals that
\* message's text and appears exactly once in the upstream contents, as the
\* first entry, before all other turns.
C18_OneSystemMessage ==
  (/\ apc = "done"
   /\ Len(SelectSeq(messages, IsSystem)) = 1
   /\ MessageText(SelectSeq(messages, IsSystem)[1]) # "") =>
    LET m == SelectSeq(messages, IsSystem)[1]
    IN  /\ systemPrompt = MessageText(m)
        /\ ExtraEntries = 1
        /\ contents[1] = SystemContent(MessageText(m))

\* The one system message has list content with two text sub-parts and
\* comes after a user message
C18_Witness ==
  /\ apc = "done"
  /\ Len(messages) >= 2
  /\ ~IsSystem(messages[1])
  /\ Len(SelectSeq(messages, IsSystem)) = 1
  /\ systemPrompt = "p q"
  /\ contents[1] = SystemContent("p q")

\* The texts of the system messages of ms, concatenated in input order
RECURSIVE SystemTexts(_)
SystemTexts(ms) ==
  IF ms = <<>> THEN ""
  ELSE (IF IsSystem(Head(ms)) THEN MessageText(Head(ms)) ELSE "")
       \o SystemTexts(Tail(ms))

\* C19: for a message list with several system messages, the system text is
\* the concatenation of the texts of all system messages in input order
\* (for list-typed content only the text sub-parts are joined); no system
\* message's text is lost.
\* Fails: extractSystemPrompt assigns systemPrompt for every system message,
\* so only the text of the last one is kept.
C19_AllSystemTexts ==
  (apc \in {"convert", "done"} /\ Len(SelectSeq(messages, IsSystem)) >= 2) =>
    systemPrompt = SystemTexts(messages)

\* The entries convertMessageToGeminiFormat gives for the messages ms
ConvertedEntries(ms) == [i \in 1..Len(ms) |-> ConvertMessageToGeminiFormat(ms[i]).msg]

\* C20: the upstream contents are one leading synthetic turn holding the
\* system text when it is not empty, followed by exactly one entry per
\* non-system input message in input order: no message is dropped,
\* duplicated or reordered, and system content is never interleaved.
C20_ContentsMirrorInput ==
  apc = "done" =>
    /\ ExtraEntries = (IF systemPrompt # "" THEN 1 ELSE 0)
    /\ systemPrompt # "" => contents[1] = SystemContent(systemPrompt)
    /\ SubSeq(contents, ExtraEntries + 1, Len(contents)) =
         ConvertedEntries(SelectSeq(messages, IsNotSystem))

\* A system message between two different non-system messages
C20_Witness ==
  /\ apc = "done"
  /\ Len(messages) = 3
  /\ IsSystem(messages[2])
  /\ messages[1] = ChatMessage("assistant", StringContent("x"))
  /\ messages[3] = ChatMessage("user", StringContent("y"))
  /\ Len(contents) = 3
  /\ contents[2].Role = "model"

\* C21: every converted message has role "model" when the input role is
\* assistant and role "user" for every other input role; no other role value
\* appears in the upstream contents.
\* Fails: convertMessageToGeminiFormat copies msg.Role and rewrites only
\* "assistant", so any other role string goes upstream as it came.
C21_RolesMapped ==
  apc = "done" =>
    LET others == SelectSeq(messages, IsNotSystem)
    IN  /\ \A i \in 1..Len(contents) : contents[i].Role \in {"user", "model"}
        /\ \A i \in 1..Len(others) :
             contents[ExtraEntries + i].Role =
               IF others[i].Role = "assistant" THEN "model" ELSE "user"

\* The text and image parts of the list ps, converted, in their order
RECURSIVE KeptParts(_)
KeptParts(ps) ==
  IF ps = <<>> THEN <<>>
  ELSE (IF Head(ps).type = "text" THEN <<[Text |-> Head(ps).text]>>
        ELSE IF Head(ps).type = "image_url" THEN <<[FileData |-> Head(ps).url]>>
        ELSE <<>>)
       \o KeptParts(Tail(ps))

HasInvalidImage(m) ==
  /\ m.Content.kind = "list"
  /\ \E i \in 1..Len(m.Content.parts) :
       m.Content.parts[i] = ImageContent("invalid")

\* C22: for list-typed message content, a part whose type is neither text
\* nor image_url (a part with no usable type included) is dropped without
\* making the conversion fail, and the remaining text and image parts are
\* converted in their original order.
\* Fails: convertContentToGeminiPart returns the error "content type is
\* required" for a part without a string type.
C22_UnknownPartsDropped ==
  /\ apc = "failed" => HasInvalidImage(otherMessages[aidx])
  /\ apc = "done" =>
       \A i \in 1..Len(otherMessages) :
         otherMessages[i].Content.kind = "list" =>
           contents[ExtraEntries + i].Parts =
             KeptParts(otherMessages[i].Content.parts)

\* The conversion of one image URL
InitImage ==
  /\ ImageInit
  /\ StreamUnused /\ AuthUnused /\ AdaptUnused /\ CompletionInit
  /\ HandlerUnused /\ ChunkerUnused /\ RateUnused

SpecImage == InitImage /\ [][ImageNext]_vars

\* ------------------------------------------------------------------------
\* Claims on the image resolver (specification SpecImage)
\* ------------------------------------------------------------------------
\* What a reader takes from a data URL: the MIME type stands between
\* "data:" and the first ";" or ",", the payload after the first ","
MimeOf(url) ==
  LET rest == Tail(url)
      stops == {i \in 1..Len(rest) : rest[i] \in {";", ","}}
  IN  IF stops = {} THEN rest
      ELSE SubSeq(rest, 1, (CHOOSE i \in stops : \A j \in stops : i <= j) - 1)

HasPayload(url) == \E i \in 1..Len(url) : url[i] = ","
PayloadOf(url) == SubSeq(url, Index(url, ",") + 1, Len(url))

\* C23: a data: image URL is accepted if and only if its MIME type is in
\* the allow-list (image/jpeg, image/jpg, image/png, image/gif, image/webp)
\* and its payload is valid base64; an accepted URL gives an inline image
\* part with that MIME type and payload, a rejected one a validation error.
C23_DataURL ==
  (ipc = "done" /\ HasPrefix(imageURL, DataPrefix)) =>
    IF /\ MimeOf(imageURL) \in SupportedImageMimeTypes
       /\ HasPayload(imageURL)
       /\ ValidBase64(PayloadOf(imageURL))
    THEN /\ validation.IsValid
         /\ imagePart = InlineData(MimeOf(imageURL), PayloadOf(imageURL))
    ELSE /\ ~validation.IsValid
         /\ imagePart = ImageError

\* data:image/png;base64,QUJD is accepted as image/png
C23_Witness ==
  /\ ipc = "done"
  /\ imageURL = <<DataPrefix, "image/png", ";", "base64", ",", "QUJD">>
  /\ imagePart = InlineData(<<"image/png">>, <<"QUJD">>)

\* The extension of a path: what follows its last "."
ExtensionOf(path) ==
  IF LastIndex(path, ".") = 0 THEN <<>>
  ELSE SubSeq(path, LastIndex(path, ".") + 1, Len(path))

\* C24: an image URL with scheme http or https and a non-empty host gives a
\* remote image part whose URI is the input URL unchanged and whose MIME
\* type is inferred from the path extension, image/jpeg by default; an
\* image URL with any other scheme (neither data:, http nor https), or an
\* empty one, is rejected with a validation error.
C24_RemoteURL ==
  (ipc = "done" /\ ~HasPrefix(imageURL, DataPrefix)) =>
    IF imageURL # <<>> /\ imageURL[1] \in HTTPSchemes
    THEN ParsedHost(imageURL) # <<>> =>
           /\ imagePart.kind = "fileData"
           /\ imagePart.FileURI = imageURL
           /\ imagePart.MimeType =
                LET ext == ExtensionOf(ParsedPath(imageURL))
                IN  IF ext \in {<<"png">>, <<"PNG">>} THEN <<"image/png">>
                    ELSE IF ext = <<"gif">> THEN <<"image/gif">>
                    ELSE <<"image/jpeg">>
    ELSE /\ ~validation.IsValid
         /\ imagePart = ImageError

\* https://host/pic.PNG is passed on as it is, as image/png
C24_Witness ==
  /\ ipc = "done"
  /\ imageURL = <<"https://", "host", "/", "pic", ".", "PNG">>
  /\ imagePart = FileData(<<"image/png">>, imageURL)

\* One request to POST /v1/chat/completions
InitHandler ==
  /\ HandlerInit
  /\ StreamUnused /\ AuthUnused /\ AdaptUnused /\ CompletionInit
  /\ ImageUnused /\ ChunkerUnused /\ RateUnused

SpecHandler == InitHandler /\ [][HandlerNext]_vars

\* ------------------------------------------------------------------------
\* Claims on the request handler (specification SpecHandler)
\* ------------------------------------------------------------------------
\* The request as it arrived has an image_url part and names a model that
\* does not declare image support (setRequestDefaults changes neither)
ImagesUnsupported ==
  /\ HasImages(request)
  /\ \/ request.Model \notin DOMAIN GeminiCliModels
     \/ ~GeminiCliModels[request.Model].SupportsImages

Rejected400 == answer.kind = "error" /\ answer.status = 400

\* C25: a request with at least one image_url part that names a model
\* without declared image support is rejected with a bad-request error
\* before any credential acquisition or upstream call; a request without
\* images, or on a model with image support, passes this check.
C25_ImageSupportChecked ==
  /\ ImagesUnsupported =>
       /\ effects = <<>>
       /\ hpc \notin {"auth", "respond"}
       /\ hpc = "done" => Rejected400
  /\ ~ImagesUnsupported => answer # ErrorAnswer(400, "Model not supported")

\* An image on a model that is not in the registry was rejected
C25_Witness ==
  /\ ImagesUnsupported
  /\ hpc = "done"
  /\ Rejected400

\* C26: a request with an empty message list, or with a model name that is
\* not in the registry, is answered with HTTP 400 and an error body; no
\* credential is acquired, no upstream call is made and no streaming
\* response is started.
C26_InvalidRequestRejected ==
  (Len(request.Messages) = 0 \/ request.Model \notin DOMAIN GeminiCliModels) =>
    /\ effects = <<>>
    /\ hpc \notin {"auth", "respond"}
    /\ hpc = "done" => Rejected400

\* A request for a model that is not in the registry was answered
C26_Witness ==
  /\ request.Model = "invalid-model"
  /\ Len(request.Messages) > 0
  /\ hpc = "done"
  /\ Rejected400

\* ------------------------------------------------------------------------
\* Claims on failed acquisitions (specification SpecAuth)
\* ------------------------------------------------------------------------
\* The last call the observer has noted
LastCall == hist.calls[Len(hist.calls)]

\* C27: a refresh exchange that is answered with a status other than 200,
\* or with a 200 whose body cannot be decoded or lacks the access token,
\* makes acquire() return an authentication error and leaves the cached
\* credential and the current access token as they were; so the exchange
\* either delivers the token the provider issued or ends in that way.
\* Fails: refreshAndCacheToken does not look whether the decoded body has
\* an access_token; a 200 with the body {} makes the empty string the
\* current token and caches it.
C27_FailedRefreshChangesNothing ==
  [][\A p \in Procs :
       (pc[p] = "rf_exchange" /\ pc'[p] # "rf_exchange") =>
         \/ /\ pc'[p] = "ct_lock"
            /\ accessToken' = IssuedToken(refreshCount')
         \/ /\ accessToken' = accessToken
            /\ cache' = cache
            /\ hist'.calls # <<>>
            /\ LastCall'.call = "acquire"
            /\ ~LastCall'.ok]_vars

IsCancellationNotice(c) == c = FakeErrorChunk
IsNoCancellationNotice(c) == ~IsCancellationNotice(c)

\* C29: on cancellation or timeout no error is surfaced to the client
\* beyond the connection closing: no error-notice text event is written for
\* the cancellation, and a buffered response never carries the text of a
\* cancellation error.
\* Fails: GetCompletion collects every text chunk, the notices of the
\* goroutine among them, and handleNonStreamingResponse answers 200 with
\* them in the content.
C29_CancellationIsSilent ==
  /\ \A i \in 1..Len(out) : out[i] # Transform(FakeErrorChunk)
  /\ (response # NoResponse /\ response # ErrorResponse) =>
       response.content = ConcatTexts(SelectSeq(emitted, IsNoCancellationNotice))

\* The split of one reasoning text
InitChunker ==
  /\ ChunkerInit
  /\ StreamUnused /\ AuthUnused /\ AdaptUnused /\ CompletionInit
  /\ ImageUnused /\ HandlerUnused /\ RateUnused

SpecChunker == InitChunker /\ [][ChunkerNext]_vars

\* ------------------------------------------------------------------------
\* Claims on the chunks of the generator (specification SpecChunker)
\* ------------------------------------------------------------------------
\* The place in the text where chunk k ends
BoundaryAfter(k) ==
  IF k = 0 THEN 0 ELSE (k - 1) * chunkSize + Len(splitChunks[k])

\* TextChunker.Split: a break point counts when its index in the window is
\* beyond seven tenths of the chunk size
TailStart(size) == (size * 7) \div 10

\* Chunk k has a blank in the tail of its window
BreakInTail(k) ==
  \E j \in (TailStart(chunkSize) + 2)..Len(splitChunks[k]) :
    splitChunks[k][j] = Blank

\* The boundary after chunk k has a letter on both sides
InsideWord(k) ==
  /\ BoundaryAfter(k) < Len(splitText)
  /\ splitText[BoundaryAfter(k)] = Letter
  /\ splitText[BoundaryAfter(k) + 1] = Letter

\* C30: for every reasoning text longer than the chunk size, each chunk the
\* generator emits is at most chunk-size long, and no chunk boundary falls
\* inside a word when a whitespace or punctuation break point exists in the
\* tail of the chunk window.
\* Fails: splitIntoChunks cuts every chunkSize bytes and never looks for a
\* break point.
C30_WordBoundaries ==
  (spc = "done" /\ Len(splitText) > chunkSize) =>
    /\ \A k \in 1..Len(splitChunks) : Len(splitChunks[k]) <= chunkSize
    /\ \A k \in 1..Len(splitChunks) : ~(InsideWord(k) /\ BreakInTail(k))

\* ------------------------------------------------------------------------
\* Claims on malformed message content (specification SpecAdapt)
\* ------------------------------------------------------------------------
\* C31: a message whose content is neither a string nor a list of parts is
\* rejected with a validation error; it is never converted by turning the
\* content into the text of a part.
\* Fails: convertMessageToGeminiFormat falls back to fmt.Sprintf("%v", ...),
\* and extractSystemPrompt passes over such a system message in silence.
C31_OtherContentRejected ==
  apc = "done" =>
    \A i \in 1..Len(messages) : messages[i].Content.kind \in {"string", "list"}

\* ------------------------------------------------------------------------
\* Claims on the stream pipeline, continued (specification Spec)
\* ------------------------------------------------------------------------
\* A thinking-content chunk that carries text, not a marker
IsThoughtText(c) ==
  c.Type = "thinking_content" /\ ~IsOpenMarker(c) /\ ~IsCloseMarker(c)

\* C32: in thinking-as-content mode every thought text event is emitted
\* while a thinking block is open: a thought part that arrives when no block
\* is open, also after an earlier block was closed by a final-text part,
\* gets an open marker immediately before its text.
\* Fails: hasStartedThinking stays TRUE after the close marker, so a thought
\* part that follows a final-text part is emitted with no open marker.
C32_ThoughtInsideBlock ==
  options.StreamThinkingAsContent =>
    \A i \in 1..Len(emitted) :
      IsThoughtText(emitted[i]) => OpenAfter(SubSeq(emitted, 1, i - 1))

\* The data of the lines ls, read after the unfinished group buf: one entry
\* for each run of data lines that a blank line ends, the lines of the run
\* put together in order
RECURSIVE DataGroups(_, _)
DataGroups(ls, buf) ==
  IF ls = <<>> THEN <<>>
  ELSE IF Head(ls) = BlankLine
  THEN (IF buf # <<>> THEN <<buf>> ELSE <<>>) \o DataGroups(Tail(ls), <<>>)
  ELSE DataGroups(Tail(ls),
                  IF Head(ls).line = "data" THEN Append(buf, Head(ls).payload)
                  ELSE buf)

\* The data lines of ls that no blank line has ended yet
RECURSIVE OpenGroup(_, _)
OpenGroup(ls, buf) ==
  IF ls = <<>> THEN buf
  ELSE IF Head(ls) = BlankLine THEN OpenGroup(Tail(ls), <<>>)
  ELSE OpenGroup(Tail(ls),
                 IF Head(ls).line = "data" THEN Append(buf, Head(ls).payload)
                 ELSE buf)

\* C33: for every sequence of upstream lines, the payloads handed to the
\* event classifier are exactly the concatenations of the data lines
\* (prefix stripped) between consecutive blank lines, in order and each
\* once, the buffer being cleared after each; a blank line with an empty
\* buffer hands nothing over and a line without the prefix adds nothing.
C33_PayloadsAreDataGroups ==
  /\ handed = DataGroups(received, <<>>)
  /\ ppc = "scan" => buffer = OpenGroup(received, <<>>)

\* A payload put together from two data lines was handed over at the blank
\* line that ended them
C33_Witness ==
  /\ \E i \in 1..Len(handed) : Len(handed[i]) = 2
  /\ received[Len(received)] = BlankLine

\* ------------------------------------------------------------------------
\* Claims on the event queue (specification SpecBacklog)
\* ------------------------------------------------------------------------
\* C34: with no cancellation and no failed write to the client, the
\* consumer receives the events in exactly the order the producer put them
\* on the queue, each once; the queue never holds more than 100 events, and
\* a producer that finds it full waits and drops nothing.
\* Step by step: a chunk enters at the tail of the queue and only there, the
\* producer gets past a chunk only by putting it on the queue, a chunk
\* leaves at the head and is then written, and nothing else is written but
\* the terminal frame after the closed queue is drained.
C34_QueueInOrder ==
  [][ /\ Len(chunkChan') <= ChanCap
      /\ (~cancelled /\ ~cancelled') =>
           /\ Len(chunkChan') > Len(chunkChan) =>
                /\ emitted' = Append(emitted, emitted'[Len(emitted')])
                /\ chunkChan' = Append(chunkChan, emitted'[Len(emitted')])
           /\ (pending # <<>> /\ pending' # pending) =>
                /\ pending' = Tail(pending)
                /\ chunkChan' = Append(chunkChan, Head(pending))
           /\ emitted' # emitted => Len(chunkChan') > Len(chunkChan)
           /\ Len(chunkChan') < Len(chunkChan) =>
                /\ chunkChan' = Tail(chunkChan)
                /\ out' = out \o WriteChunk(Head(chunkChan), hasStarted).frames
           /\ out' # out => Len(chunkChan') < Len(chunkChan)
    ]_vars

\* The producer found the queue full, its chunk went in after the consumer
\* had made room, and the consumer has received every chunk
C34_Witness ==
  /\ ~cancelled
  /\ Len(emitted) > ChanCap
  /\ chunkChan = <<>>
  /\ Len(out) > ChanCap
  /\ out[Len(out)] = Transform(emitted[Len(emitted)])

\* ------------------------------------------------------------------------
\* Claims on the end of the upstream body (specification Spec)
\* ------------------------------------------------------------------------
\* C35: every data payload received before the stream ends is handed to the
\* event classifier, also a last payload whose data lines are not followed
\* by a blank line before the end of the stream.
\* Fails: parseSSEStream returns scanner.Err() when the body ends and never
\* looks at what is left in the buffer.
C35_LastPayloadHanded ==
  StreamEndedNormally =>
    handed = DataGroups(received, <<>>)
             \o (IF OpenGroup(received, <<>>) # <<>>
                 THEN <<OpenGroup(received, <<>>)>> ELSE <<>>)

\* ------------------------------------------------------------------------
\* Claims on the current token under concurrent requests (specification
\* SpecCalls)
\* ------------------------------------------------------------------------
\* C36: under any interleaving of concurrent requests, the bearer token of
\* an upstream streaming call that a request issues after its successful
\* acquire() is never empty and is a token an acquire() produced; the 401
\* handling of another request, which clears the shared current token,
\* cannot make a request send an empty token.  Stated for the runs without a
\* refresh exchange, where every token an acquire() produces is the token
\* of the embedded bundle.
\* Fails: performStreamRequestWithRetry reads the shared field with
\* GetAccessToken at the time of the call, and callEndpointWithRetry of
\* another request may have set it to "" in between.
C36_TokenNeverCleared ==
  [][ \A p \in Procs :
        (pc[p] = "sr_call" /\ pc'[p] # "sr_call" /\ refreshCount = 0) =>
          /\ accessToken # ""
          /\ accessToken = Unmarshal(config).creds.access_token ]_vars

\* ------------------------------------------------------------------------
\* Claims on the current token and the cache (specification SpecConc)
\* ------------------------------------------------------------------------
\* C37: whenever no acquire() or refresh is in progress and the cache holds
\* an entry written by the last completed acquire(), the current access
\* token is the token of the cached entry, also after two or more refresh
\* exchanges have completed concurrently in any interleaving.
\* Fails: refreshAndCacheToken sets the current token under a.mu and writes
\* the cache under cacheMu in two separate steps, so two concurrent
\* refreshes can leave the token of one and the cache entry of the other.
\* Stated for the states in which both tokens are tokens the identity
\* provider issued or the bundle held (neither is empty).
C37_TokenMatchesCache ==
  ( /\ \A p \in Procs : pc[p] = "idle"
    /\ cache # NoToken
    /\ cache.AccessToken # ""
    /\ accessToken # "" ) =>
    accessToken = cache.AccessToken

\* ------------------------------------------------------------------------
\* Claims on the rate limiter (specification SpecRate)
\* ------------------------------------------------------------------------
InitRate ==
  /\ RateInit
  /\ StreamUnused /\ AuthUnused /\ AdaptUnused /\ CompletionInit
  /\ ImageUnused /\ HandlerUnused /\ ChunkerUnused

SpecRate == InitRate /\ [][RateNext]_vars

\* The admissions log of one client IP keeps to the limit when the time of
\* its entries is read with At: a window opens with an admission made when
\* none is open (start < 0, or the window that began at start is over) and
\* lasts RateLimitWindow; count is the number of admissions in the open
\* window
RECURSIVE WithinLimit(_, _, _, _, _)
WithinLimit(log, At(_), ip, start, count) ==
  IF log = <<>> THEN TRUE
  ELSE LET e == Head(log)
       IN  IF e.ip # ip THEN WithinLimit(Tail(log), At, ip, start, count)
           ELSE IF start < 0 \/ At(e) > start + RateLimitWindow
           THEN WithinLimit(Tail(log), At, ip, At(e), 1)
           ELSE /\ count + 1 <= RateLimitRequests
                /\ WithinLimit(Tail(log), At, ip, start, count + 1)

\* The time of an admission: when the middleware decided, or the time the
\* request had read
DecidedAt(e) == e.at
ReadAt(e) == e.now

\* C38: for each client IP, within one rate-limit window at most the
\* configured number of requests is let through, every further request is
\* answered 429 and does not reach a handler, and the count starts again
\* after the window; in every interleaving of the requests.  The windows
\* are counted by the time of the decisions or, failing that, by the times
\* the requests read.
\* Fails: the middleware reads time.Now() before mu.Lock(), so a request
\* that waited for the mutex decides with a time of the past, and the
\* clean-up made for a request of another client removes the entry that
\* held the count of its window.
C38_AtMostLimitPerWindow ==
  /\ \A ip \in ClientIPs :
       \/ WithinLimit(admitted, DecidedAt, ip, -1, 0)
       \/ WithinLimit(admitted, ReadAt, ip, -1, 0)
  /\ \A r \in 1..NumRequests :
       reqs[r].rpc = "rejected" =>
         \A i \in 1..Len(admitted) : admitted[i].req # r

\* ------------------------------------------------------------------------
\* Claims on the request defaults (specification SpecHandler)
\* ------------------------------------------------------------------------
\* C39: a chat-completion request whose model field is empty is served with
\* the default model gemini-2.5-flash: with a message list that is not
\* empty it passes the validation and goes on to setRequestDefaults, which
\* fills the default in.
\* Fails: validateChatCompletionRequest runs before setRequestDefaults and
\* rejects the empty name, which is no id of the registry.
C39_EmptyModelGetsDefault ==
  [][ (hpc = "validate" /\ request.Model = "" /\ request.Messages # <<>>) =>
        (hpc' = "defaults" /\ SetRequestDefaults(request').Model = DefaultModel)
    ]_vars

\* ------------------------------------------------------------------------
\* Claims on the two splitters (specification SpecSplitters)
\* ------------------------------------------------------------------------
InitSplitters ==
  /\ SplittersInit
  /\ StreamUnused /\ AuthUnused /\ AdaptUnused /\ CompletionInit
  /\ ImageUnused /\ HandlerUnused /\ RateUnused

SpecSplitters == InitSplitters /\ [][SplittersNext]_vars

\* The chunks put together in order
RECURSIVE ConcatChunks(_)
ConcatChunks(chunks) ==
  IF chunks = <<>> THEN <<>> ELSE Head(chunks) \o ConcatChunks(Tail(chunks))

\* C40: for every text and every chunk size of 1 or more, both splitters
\* (Client.splitIntoChunks and TextChunker.Split) return normally, with no
\* slice index out of range, a list of chunks none of which is empty and
\* which put together in order give the text.
\* Fails: TextChunker.Split slices remaining[:chunkSize+10] without looking
\* at the length of what is left and panics; both splitters return one
\* empty chunk for the empty text.
C40_SplittersReturnTheText ==
  /\ spc # "panic"
  /\ spc = "done" =>
       /\ \A i \in 1..Len(splitChunks) : splitChunks[i] # <<>>
       /\ ConcatChunks(splitChunks) = splitText

====
